---- MODULE Spec2Model ----
(***************************************************************************)
(* EpiStratify backend: the workflow state machine of a project, its step  *)
(* validators, the stratification risk classifier and the forecast         *)
(* combined-effectiveness fold, modelled from backend/app.                 *)
(*                                                                         *)
(* Requests are modelled at the level of one HTTP handler: the handler's   *)
(* service calls followed by get_db's commit (normal return) or rollback   *)
(* (exception).  The variables hold the committed rows.                    *)
(***************************************************************************)
EXTENDS Integers, Sequences, FiniteSets, TLC

VARIABLES
    wf,            \* workflow_states rows of the project: step -> row
    dataSources,   \* data_sources rows of the project, in insertion order
    configs,       \* stratification_configs rows, index = id
    results,       \* stratification_results rows
    request,       \* the last request: operation, step, caller, call time
    response,      \* what the last request returned to the caller
    thresholds,    \* classifier harness: the threshold bands in use
    metricValue,   \* classifier harness: the last classified value
    riskLevel,     \* classifier harness: the level returned for it
    fcOrder,       \* forecast harness: the order in which codes are folded
    fcIdx,         \* forecast harness: how many codes have been folded
    fcCase,        \* forecast harness: combined case reduction so far
    fcDeath,       \* forecast harness: combined death reduction so far
    fcDone,        \* forecast harness: the 0.95 cap has been applied
    gTop,          \* graph walk: how many steps the outer loop has started
    gStack,        \* graph walk: the frames of visit() in progress
    gVisited,      \* graph walk: the steps whose visit() has returned
    gCycle,        \* graph walk: visit() raised "Circular dependency"
    scenarios,     \* intervention_scenarios rows, index = id
    costItems,     \* scenario_cost_items rows
    forecasts,     \* forecast_results rows, in creation order
    sessions       \* the database sessions of the requests in flight

vars == <<wf, dataSources, configs, results, request, response,
          thresholds, metricValue, riskLevel,
          fcOrder, fcIdx, fcCase, fcDeath, fcDone,
          gTop, gStack, gVisited, gCycle,
          scenarios, costItems, forecasts, sessions>>

wfVars == <<wf, dataSources, configs, results, request, response>>
riskVars == <<thresholds, metricValue, riskLevel>>
fcVars == <<fcOrder, fcIdx, fcCase, fcDeath, fcDone>>
graphVars == <<gTop, gStack, gVisited, gCycle>>
scnVars == <<scenarios, costItems, forecasts>>
txVars == <<sessions>>

(***************************************************************************)
(* Enumerations (core/enums.py)                                            *)
(***************************************************************************)
None == "None"

WORKFLOW_STEP_ORDER ==
    << "planning_preparedness", "data_assembly", "situation_analysis",
       "stratification", "intervention_tailoring", "impact_forecasting",
       "scenario_selection", "resource_optimization", "service_delivery",
       "monitoring_evaluation" >>

WorkflowStep == { WORKFLOW_STEP_ORDER[i] : i \in DOMAIN WORKFLOW_STEP_ORDER }

NOT_STARTED == "not_started"
IN_PROGRESS == "in_progress"
COMPLETED == "completed"
BLOCKED == "blocked"
StepStatus == { NOT_STARTED, IN_PROGRESS, COMPLETED, BLOCKED }

BLOCKING == "blocking"
NON_BLOCKING == "non_blocking"

WORKFLOW_STEP_LABELS ==
    [ s \in WorkflowStep |->
        CASE s = "planning_preparedness" -> "Planning and Preparedness"
          [] s = "data_assembly" -> "Data Assembly and Management"
          [] s = "situation_analysis" -> "Situation Analysis"
          [] s = "stratification" -> "Stratification"
          [] s = "intervention_tailoring" -> "Intervention Tailoring"
          [] s = "impact_forecasting" -> "Impact Forecasting"
          [] s = "scenario_selection" -> "Strategic Scenario Selection"
          [] s = "resource_optimization" -> "Resource Optimization"
          [] s = "service_delivery" -> "Service Delivery"
          [] s = "monitoring_evaluation" -> "Monitoring and Evaluation" ]

(***************************************************************************)
(* The prerequisite graph (workflow_service.py): step -> list of           *)
(* <<prerequisite step, type>>.                                            *)
(***************************************************************************)
\* Mutant of PREREQUISITES: the first step waits for the last one.
PREREQUISITES_Circular ==
    ( "planning_preparedness" :> << <<"monitoring_evaluation", BLOCKING>> >> ) @@
    ( "data_assembly" :> << <<"planning_preparedness", BLOCKING>> >> ) @@
    ( "situation_analysis" :> << <<"data_assembly", BLOCKING>> >> ) @@
    ( "stratification" :> << <<"situation_analysis", BLOCKING>> >> ) @@
    ( "intervention_tailoring" :> << <<"stratification", BLOCKING>> >> ) @@
    ( "impact_forecasting" :> << <<"intervention_tailoring", BLOCKING>> >> ) @@
    ( "scenario_selection" :> << <<"impact_forecasting", BLOCKING>> >> ) @@
    ( "resource_optimization" :> << <<"scenario_selection", BLOCKING>> >> ) @@
    ( "service_delivery" :> << <<"resource_optimization", BLOCKING>> >> ) @@
    ( "monitoring_evaluation" :> << <<"service_delivery", NON_BLOCKING>> >> )

\* Mutant of PREREQUISITES: the entry of data_assembly names the step after
\* it instead of the step before it.
PREREQUISITES_Forward ==
    ( "planning_preparedness" :> << >> ) @@
    ( "data_assembly" :> << <<"situation_analysis", BLOCKING>> >> ) @@
    ( "situation_analysis" :> << <<"data_assembly", BLOCKING>> >> ) @@
    ( "stratification" :> << <<"situation_analysis", BLOCKING>> >> ) @@
    ( "intervention_tailoring" :> << <<"stratification", BLOCKING>> >> ) @@
    ( "impact_forecasting" :> << <<"intervention_tailoring", BLOCKING>> >> ) @@
    ( "scenario_selection" :> << <<"impact_forecasting", BLOCKING>> >> ) @@
    ( "resource_optimization" :> << <<"scenario_selection", BLOCKING>> >> ) @@
    ( "service_delivery" :> << <<"resource_optimization", BLOCKING>> >> ) @@
    ( "monitoring_evaluation" :> << <<"service_delivery", NON_BLOCKING>> >> )

PREREQUISITES ==
    ( "planning_preparedness" :> << >> ) @@
    ( "data_assembly" :> << <<"planning_preparedness", BLOCKING>> >> ) @@
    ( "situation_analysis" :> << <<"data_assembly", BLOCKING>> >> ) @@
    ( "stratification" :> << <<"situation_analysis", BLOCKING>> >> ) @@
    ( "intervention_tailoring" :> << <<"stratification", BLOCKING>> >> ) @@
    ( "impact_forecasting" :> << <<"intervention_tailoring", BLOCKING>> >> ) @@
    ( "scenario_selection" :> << <<"impact_forecasting", BLOCKING>> >> ) @@
    ( "resource_optimization" :> << <<"scenario_selection", BLOCKING>> >> ) @@
    ( "service_delivery" :> << <<"resource_optimization", BLOCKING>> >> ) @@
    ( "monitoring_evaluation" :> << <<"service_delivery", NON_BLOCKING>> >> )

\* PREREQUISITES.get(step, [])
PrereqsOf(step) ==
    IF step \in DOMAIN PREREQUISITES THEN PREREQUISITES[step] ELSE << >>

(***************************************************************************)
(* Rows and messages                                                       *)
(***************************************************************************)
\* A JSON payload is modelled by the set of its keys that hold a truthy
\* value; NoData is the NULL column.
NoData == { None }

\* state.data or {}
DataOrEmpty(data) == IF data = NoData THEN {} ELSE data

\* One error or warning string: its fixed text, the names it interpolates
\* and the number it interpolates (-1 when it has none).
Msg(text, args, num) == [ text |-> text, args |-> args, num |-> num ]

\* The validation_errors column: NULL until a validation has been stored.
NoValidation == [ stored |-> FALSE, errors |-> << >>, warnings |-> << >> ]

Snapshot(errors, warnings) ==
    [ stored |-> TRUE, errors |-> errors, warnings |-> warnings ]

\* Mutant of NewWorkflowState: the rows are created already in progress.
NewWorkflowState_Started ==
    [ status |-> IN_PROGRESS,
      completion_percentage |-> 0,
      notes |-> None,
      data |-> NoData,
      validation_errors |-> NoValidation,
      completed_at |-> None,
      completed_by |-> None ]

\* The row initialize_workflow creates for each step.
NewWorkflowState ==
    [ status |-> NOT_STARTED,
      completion_percentage |-> 0,
      notes |-> None,
      data |-> NoData,
      validation_errors |-> NoValidation,
      completed_at |-> None,
      completed_by |-> None ]

\* No workflow_states rows: the project has not been created.
NoRows == [ s \in {} |-> NewWorkflowState ]

\* sep.join(strs), as the sequence of its pieces
RECURSIVE Join(_, _)
Join(sep, strs) ==
    IF Len(strs) <= 1 THEN strs
    ELSE << Head(strs), sep >> \o Join(sep, Tail(strs))

(***************************************************************************)
(* Step validators (workflow_service.py).  Each returns the pair           *)
(* (errors, warnings) as a record.                                         *)
(***************************************************************************)
Verdict(errors, warnings) == [ errors |-> errors, warnings |-> warnings ]

\* <<x>> when cond holds, else the empty list: a conditional append
When(cond, x) == IF cond THEN << x >> ELSE << >>

\* Mutant of _validate_planning: a missing timeline is an error.
_validate_planning_TimelineError(w, step) ==
    LET data == DataOrEmpty(w[step].data)
    IN  Verdict(
          When("scope_of_work" \notin data,
               Msg("Scope of work not documented", {}, -1))
          \o When("operational_unit" \notin data,
               Msg("Operational unit (district/region) not defined", {}, -1))
          \o When("timeline" \notin data,
               Msg("Timeline not yet created", {}, -1)),
          << >>)

_validate_planning(w, step) ==
    LET data == DataOrEmpty(w[step].data)
    IN  Verdict(
          When("scope_of_work" \notin data,
               Msg("Scope of work not documented", {}, -1))
          \o When("operational_unit" \notin data,
               Msg("Operational unit (district/region) not defined", {}, -1)),
          When("timeline" \notin data,
               Msg("Timeline not yet created", {}, -1)))

REQUIRED_TYPES == { "epidemiological", "demographic" }

\* The quality score below which a data source draws a warning (0.5), in
\* percent.
LOW_QUALITY == 50

RECURSIVE LowQualityWarnings(_)
LowQualityWarnings(sources) ==
    IF sources = << >> THEN << >>
    ELSE LET ds == Head(sources)
         IN  When(ds.quality_score # -1 /\ ds.quality_score < LOW_QUALITY,
                  Msg("Low quality score for", { ds.name }, ds.quality_score))
             \o LowQualityWarnings(Tail(sources))

\* Mutant of _validate_data_assembly: a low quality score is an error.
_validate_data_assembly_LowQualityBlocks(sources) ==
    IF Len(sources) = 0
    THEN Verdict(<< Msg("No data sources uploaded", {}, -1) >>, << >>)
    ELSE LET source_types == { sources[i].source_type : i \in DOMAIN sources }
             missing == REQUIRED_TYPES \ source_types
         IN  Verdict(
               When(missing # {},
                    Msg("Missing required data types: ", missing, -1))
               \o LowQualityWarnings(sources),
               << >>)

_validate_data_assembly(sources) ==
    IF Len(sources) = 0
    THEN Verdict(<< Msg("No data sources uploaded", {}, -1) >>, << >>)
    ELSE LET source_types == { sources[i].source_type : i \in DOMAIN sources }
             missing == REQUIRED_TYPES \ source_types
         IN  Verdict(
               When(missing # {},
                    Msg("Missing required data types: ", missing, -1)),
               LowQualityWarnings(sources))

_validate_situation_analysis(w, step) ==
    LET data == DataOrEmpty(w[step].data)
    IN  Verdict(
          When("analysis_completed" \notin data,
               Msg("Situation analysis not marked as completed", {}, -1)),
          << >>)

RECURSIVE MissingResultErrors(_, _, _)
MissingResultErrors(cfs, rs, i) ==
    IF i > Len(cfs) THEN << >>
    ELSE When(cfs[i].is_active
                /\ { k \in DOMAIN rs : rs[k].config_id = i } = {},
              Msg("No stratification results for config", { cfs[i].name }, -1))
         \o MissingResultErrors(cfs, rs, i + 1)

_validate_stratification(cfs, rs) ==
    IF { i \in DOMAIN cfs : cfs[i].is_active } = {}
    THEN Verdict(<< Msg("No active stratification configuration", {}, -1) >>,
                 << >>)
    ELSE Verdict(MissingResultErrors(cfs, rs, 1), << >>)

\* Mutant of _validate_generic: an incomplete blocking prerequisite is an
\* error.
_validate_generic_WithPrerequisites(w, step) ==
    Verdict(When(\E i \in DOMAIN PrereqsOf(step) :
                    /\ PrereqsOf(step)[i][2] = BLOCKING
                    /\ w[PrereqsOf(step)[i][1]].status # COMPLETED,
                 Msg("Prerequisites are not completed", {}, -1)),
            When(w[step].completion_percentage < 100,
                 Msg("Step is % complete", {}, w[step].completion_percentage)))

_validate_generic(w, step) ==
    Verdict(<< >>,
            When(w[step].completion_percentage < 100,
                 Msg("Step is % complete", {}, w[step].completion_percentage)))

\* The validators dictionary of validate_step, applied to the stored rows.
Validator(w, sources, cfs, rs, step) ==
    CASE step = "planning_preparedness" -> _validate_planning(w, step)
      [] step = "data_assembly" -> _validate_data_assembly(sources)
      [] step = "situation_analysis" -> _validate_situation_analysis(w, step)
      [] step = "stratification" -> _validate_stratification(cfs, rs)
      [] OTHER -> _validate_generic(w, step)

(***************************************************************************)
(* Read side: _get_prerequisite_status, get_step, get_workflow_state       *)
(***************************************************************************)
\* Labels of the incomplete prerequisites of the given type, in list order.
RECURSIVE IncompletePrereqs(_, _, _)
IncompletePrereqs(prereqs, w, type) ==
    IF prereqs = << >> THEN << >>
    ELSE LET p == Head(prereqs)
         IN  When((p[1] \notin DOMAIN w \/ w[p[1]].status # COMPLETED)
                    /\ p[2] = type,
                  WORKFLOW_STEP_LABELS[p[1]])
             \o IncompletePrereqs(Tail(prereqs), w, type)

\* Mutant of _get_prerequisite_status: every incomplete prerequisite blocks.
_get_prerequisite_status_AllBlock(step, w) ==
    [ blocking |-> IncompletePrereqs(PrereqsOf(step), w, BLOCKING)
                   \o IncompletePrereqs(PrereqsOf(step), w, NON_BLOCKING),
      non_blocking |-> << >> ]

_get_prerequisite_status(step, w) ==
    [ blocking |-> IncompletePrereqs(PrereqsOf(step), w, BLOCKING),
      non_blocking |-> IncompletePrereqs(PrereqsOf(step), w, NON_BLOCKING) ]

\* Mutant of StepStatusResponse: a step that is not accessible is reported
\* as blocked.
StepStatusResponse_Blocked(step, w) ==
    LET pre == _get_prerequisite_status(step, w)
    IN  [ step |-> step,
          label |-> WORKFLOW_STEP_LABELS[step],
          status |-> IF Len(pre.blocking) = 0 THEN w[step].status ELSE BLOCKED,
          completion_percentage |-> w[step].completion_percentage,
          is_accessible |-> (Len(pre.blocking) = 0),
          blocking_prerequisites |-> pre.blocking,
          non_blocking_prerequisites |-> pre.non_blocking,
          notes |-> w[step].notes,
          completed_at |-> w[step].completed_at,
          data |-> w[step].data,
          validation_errors |-> w[step].validation_errors ]

\* StepStatusResponse for one stored row
StepStatusResponse(step, w) ==
    LET pre == _get_prerequisite_status(step, w)
    IN  [ step |-> step,
          label |-> WORKFLOW_STEP_LABELS[step],
          status |-> w[step].status,
          completion_percentage |-> w[step].completion_percentage,
          is_accessible |-> (Len(pre.blocking) = 0),
          blocking_prerequisites |-> pre.blocking,
          non_blocking_prerequisites |-> pre.non_blocking,
          notes |-> w[step].notes,
          completed_at |-> w[step].completed_at,
          data |-> w[step].data,
          validation_errors |-> w[step].validation_errors ]

\* The loop of get_workflow_state over WORKFLOW_STEP_ORDER from position i
\* on, with the accumulators it carries.
RECURSIVE WorkflowScan(_, _, _)
WorkflowScan(w, i, acc) ==
    IF i > Len(WORKFLOW_STEP_ORDER) THEN acc
    ELSE LET step == WORKFLOW_STEP_ORDER[i]
         IN  IF step \notin DOMAIN w
             THEN WorkflowScan(w, i + 1, acc)
             ELSE LET r == StepStatusResponse(step, w)
                      done == (w[step].status = COMPLETED)
                  IN  WorkflowScan(w, i + 1,
                        [ steps |-> Append(acc.steps, r),
                          completed_count |->
                              acc.completed_count + (IF done THEN 1 ELSE 0),
                          current_step |->
                              IF ~done /\ acc.current_step = None
                                 /\ r.is_accessible
                              THEN step ELSE acc.current_step ])

get_workflow_state(w) ==
    LET acc == WorkflowScan(w, 1,
                 [ steps |-> << >>, completed_count |-> 0,
                   current_step |-> None ])
    IN  [ steps |-> acc.steps,
          overall_progress |->
              (acc.completed_count * 100) \div Len(WORKFLOW_STEP_ORDER),
          current_step |-> acc.current_step ]

(***************************************************************************)
(* Stratification engine (stratification_service.py)                       *)
(***************************************************************************)
RISK_LEVELS == << "very_low", "low", "moderate", "high" >>

\* The loop of _assign_risk_level from level i on; metric values and band
\* limits are numbers on one integer scale.
RECURSIVE AssignFrom(_, _, _)
AssignFrom(metric_value, th, i) ==
    IF i > Len(RISK_LEVELS) THEN "high"
    ELSE LET level_name == RISK_LEVELS[i]
         IN  IF level_name \in DOMAIN th
                /\ th[level_name].min_value <= metric_value
                /\ metric_value < th[level_name].max_value
             THEN level_name
             ELSE AssignFrom(metric_value, th, i + 1)

_assign_risk_level(metric_value, th) == AssignFrom(metric_value, th, 1)

\* Mutant of _determine_eligible_interventions: IPTp is offered at every
\* level.
_determine_eligible_interventions_IptpAlways(risk_level) ==
    << "CM" >>
    \o (IF risk_level \in { "low", "moderate", "high" }
        THEN << "ITN" >> ELSE << >>)
    \o (IF risk_level \in { "moderate", "high" } THEN << "IRS" >> ELSE << >>)
    \o << "IPTp" >>
    \o (IF risk_level \in { "moderate", "high" }
        THEN << "SMC", "VACCINE" >> ELSE << >>)

_determine_eligible_interventions(risk_level) ==
    << "CM" >>
    \o (IF risk_level \in { "low", "moderate", "high" }
        THEN << "ITN" >> ELSE << >>)
    \o (IF risk_level \in { "moderate", "high" } THEN << "IRS" >> ELSE << >>)
    \o (IF risk_level # "very_low" THEN << "IPTp" >> ELSE << >>)
    \o (IF risk_level \in { "moderate", "high" }
        THEN << "SMC", "VACCINE" >> ELSE << >>)

\* The result row calculate_stratification builds for one input item.
StratificationResult(config_id, th, item) ==
    LET risk_level == _assign_risk_level(item.metric_value, th)
    IN  [ config_id |-> config_id,
          admin_unit_name |-> item.admin_unit_name,
          metric_value |-> item.metric_value,
          risk_level |-> risk_level,
          eligible_interventions |->
              _determine_eligible_interventions(risk_level) ]

RECURSIVE SeqMapResults(_, _, _)
SeqMapResults(config_id, th, items) ==
    IF items = << >> THEN << >>
    ELSE << StratificationResult(config_id, th, Head(items)) >>
         \o SeqMapResults(config_id, th, Tail(items))

\* delete(StratificationResult).where(config_id == ...)
RECURSIVE DeleteResults(_, _)
DeleteResults(rs, config_id) ==
    IF rs = << >> THEN << >>
    ELSE (IF Head(rs).config_id = config_id THEN << >> ELSE << Head(rs) >>)
         \o DeleteResults(Tail(rs), config_id)

(***************************************************************************)
(* Responses                                                               *)
(***************************************************************************)
NoState == [ steps |-> << >>, overall_progress |-> 0, current_step |-> None ]

\* The request a handler serves: the operation, the step it addresses, the
\* caller (current_user.id) and the time of the call, where the operation
\* uses them.
Request(op, step, user_id, now) ==
    [ op |-> op, step |-> step, user_id |-> user_id, now |-> now ]

\* What the request returned: the HTTP status, the error detail (the pieces
\* of the message), the validation verdict and, for GET workflow, the
\* WorkflowStateResponse.
Response(code, detail, verdict, state) ==
    [ code |-> code, detail |-> detail,
      errors |-> verdict.errors, warnings |-> verdict.warnings,
      state |-> state ]

NoVerdict == Verdict(<< >>, << >>)

ProjectExists == DOMAIN wf # {}

(***************************************************************************)
(* Workflow operations (workflow_service.py), as the functions they apply  *)
(* to the stored rows                                                      *)
(***************************************************************************)
\* A StepUpdateRequest: a field the request leaves out is None (notes),
\* -1 (completion_percentage) or NoData (data).
StepUpdateRequest(notes, completion_percentage, data) ==
    [ notes |-> notes, completion_percentage |-> completion_percentage,
      data |-> data ]

\* Mutant of update_step: every update puts the step in progress.
update_step_AlwaysInProgress(state, patch) ==
    [ state EXCEPT
        !.status = IN_PROGRESS,
        !.notes = IF patch.notes # None THEN patch.notes ELSE @,
        !.completion_percentage =
            IF patch.completion_percentage # -1
            THEN patch.completion_percentage ELSE @,
        !.data = IF patch.data # NoData THEN patch.data ELSE @ ]

update_step(state, patch) ==
    [ state EXCEPT
        !.status = IF @ = NOT_STARTED THEN IN_PROGRESS ELSE @,
        !.notes = IF patch.notes # None THEN patch.notes ELSE @,
        !.completion_percentage =
            IF patch.completion_percentage # -1
            THEN patch.completion_percentage ELSE @,
        !.data = IF patch.data # NoData THEN patch.data ELSE @ ]

\* Mutant of StepValidationResponse: a warning makes the step invalid.
StepValidationResponse_WarningsBlock(verdict) ==
    [ code |-> 200, detail |-> << >>,
      is_valid |-> (Len(verdict.errors) = 0 /\ Len(verdict.warnings) = 0),
      errors |-> verdict.errors, warnings |-> verdict.warnings,
      state |-> NoState ]

\* What validate_step returns.
StepValidationResponse(verdict) ==
    [ code |-> 200, detail |-> << >>,
      is_valid |-> (Len(verdict.errors) = 0),
      errors |-> verdict.errors, warnings |-> verdict.warnings,
      state |-> NoState ]

\* The row after validate_step has stored its verdict.
validate_step(state, verdict) ==
    [ state EXCEPT
        !.validation_errors = Snapshot(verdict.errors, verdict.warnings) ]

\* The assignments of complete_step once validation has passed.
complete_step(state, user_id, now) ==
    [ state EXCEPT
        !.status = COMPLETED,
        !.completion_percentage = 100,
        !.completed_at = now,
        !.completed_by = user_id ]

\* Mutant of Reopened: the row goes back to not_started.
Reopened_ToNotStarted(state) ==
    [ state EXCEPT
        !.status = NOT_STARTED, !.completed_at = None, !.completed_by = None ]

\* Mutant of Reopened: completed_by is left as it was.
Reopened_KeepsCompletedBy(state) ==
    [ state EXCEPT !.status = IN_PROGRESS, !.completed_at = None ]

\* The three assignments reopen_step makes to a row.
Reopened(state) ==
    [ state EXCEPT
        !.status = IN_PROGRESS, !.completed_at = None, !.completed_by = None ]

\* Mutant of IsBlockingPrereqOf: the type of the prerequisite is ignored.
IsBlockingPrereqOf_AnyType(step, downstream_step) ==
    \E i \in DOMAIN PrereqsOf(downstream_step) :
        PrereqsOf(downstream_step)[i][1] = step

\* step is listed as a BLOCKING prerequisite of downstream_step
IsBlockingPrereqOf(step, downstream_step) ==
    \E i \in DOMAIN PrereqsOf(downstream_step) :
        PrereqsOf(downstream_step)[i] = << step, BLOCKING >>

\* Mutant of reopen_step: the cascade follows the prerequisite's status
\* instead of its identity.
reopen_step_ByStatus(w, step) ==
    [ s \in DOMAIN w |->
        IF s = step THEN Reopened(w[s])
        ELSE IF (\E i \in DOMAIN PrereqsOf(s) :
                    /\ PrereqsOf(s)[i][2] = BLOCKING
                    /\ w[PrereqsOf(s)[i][1]].status = IN_PROGRESS)
                /\ w[s].status = COMPLETED
             THEN Reopened(w[s])
             ELSE w[s] ]

reopen_step(w, step) ==
    [ s \in DOMAIN w |->
        IF s = step THEN Reopened(w[s])
        ELSE IF IsBlockingPrereqOf(step, s) /\ w[s].status = COMPLETED
             THEN Reopened(w[s])
             ELSE w[s] ]

\* The ValueError complete_step raises, as the pieces of its message.
CannotComplete(errors) ==
    << Msg("Step cannot be completed: ", {}, -1) >>
    \o Join(Msg(", ", {}, -1), errors)

(***************************************************************************)
(* Requests.  Every handler first resolves the caller's membership of the  *)
(* project (get_project_member), so it acts only on an existing project.   *)
(***************************************************************************)
\* POST /projects: ProjectService.create_project -> initialize_workflow
CreateProject ==
    /\ ~ProjectExists
    /\ wf' = [ s \in WorkflowStep |-> NewWorkflowState ]
    /\ request' = Request("create_project", None, None, None)
    /\ response' = Response(201, << >>, NoVerdict, NoState)
    /\ UNCHANGED << dataSources, configs, results >>

\* GET /workflow
GetWorkflow ==
    /\ ProjectExists
    /\ request' = Request("get_workflow", None, None, None)
    /\ response' = Response(200, << >>, NoVerdict,
                            get_workflow_state(wf))
    /\ UNCHANGED << wf, dataSources, configs, results >>

\* PATCH /workflow/steps/{step}
UpdateStep(step, patch) ==
    /\ ProjectExists
    /\ wf' = [ wf EXCEPT ![step] = update_step(@, patch) ]
    /\ request' = Request("update_step", step, None, None)
    /\ response' = Response(200, << >>, NoVerdict, NoState)
    /\ UNCHANGED << dataSources, configs, results >>

\* POST /workflow/steps/{step}/validate
ValidateStep(step) ==
    /\ ProjectExists
    /\ LET verdict == Validator(wf, dataSources, configs, results, step)
       IN  /\ wf' = [ wf EXCEPT ![step] = validate_step(@, verdict) ]
           /\ response' = StepValidationResponse(verdict)
    /\ request' = Request("validate_step", step, None, None)
    /\ UNCHANGED << dataSources, configs, results >>

\* Mutant of CompleteStep: the gate looks at the warnings, not the errors.
CompleteStep_GateOnWarnings(step, user_id, now) ==
    /\ ProjectExists
    /\ LET verdict == Validator(wf, dataSources, configs, results, step)
       IN  IF Len(verdict.warnings) # 0
           THEN /\ response' = Response(400, CannotComplete(verdict.errors),
                                        verdict, NoState)
                /\ wf' = wf
           ELSE /\ wf' = [ wf EXCEPT ![step] =
                             complete_step(validate_step(@, verdict),
                                           user_id, now) ]
                /\ response' = Response(200, << >>, verdict, NoState)
    /\ request' = Request("complete_step", step, user_id, now)
    /\ UNCHANGED << dataSources, configs, results >>

\* Mutant of CompleteStep: the row is marked completed before validation
\* and a failed validation does not undo it.
CompleteStep_MarksFirst(step, user_id, now) ==
    /\ ProjectExists
    /\ LET verdict == Validator(wf, dataSources, configs, results, step)
       IN  /\ wf' = [ wf EXCEPT ![step] =
                        complete_step(validate_step(@, verdict), user_id, now) ]
           /\ response' = IF Len(verdict.errors) # 0
                          THEN Response(400, CannotComplete(verdict.errors),
                                        verdict, NoState)
                          ELSE Response(200, << >>, verdict, NoState)
    /\ request' = Request("complete_step", step, user_id, now)
    /\ UNCHANGED << dataSources, configs, results >>

\* POST /workflow/steps/{step}/complete.  A failed validation raises
\* ValueError, the handler turns it into HTTP 400 and get_db rolls the
\* session back, so nothing that validate_step flushed is committed.
CompleteStep(step, user_id, now) ==
    /\ ProjectExists
    /\ LET verdict == Validator(wf, dataSources, configs, results, step)
       IN  IF Len(verdict.errors) # 0
           THEN /\ response' = Response(400, CannotComplete(verdict.errors),
                                        verdict, NoState)
                /\ wf' = wf
           ELSE /\ wf' = [ wf EXCEPT ![step] =
                             complete_step(validate_step(@, verdict),
                                           user_id, now) ]
                /\ response' = Response(200, << >>, verdict, NoState)
    /\ request' = Request("complete_step", step, user_id, now)
    /\ UNCHANGED << dataSources, configs, results >>

\* POST /workflow/steps/{step}/reopen
ReopenStep(step) ==
    /\ ProjectExists
    /\ wf' = reopen_step(wf, step)
    /\ request' = Request("reopen_step", step, None, None)
    /\ response' = Response(200, << >>, NoVerdict, NoState)
    /\ UNCHANGED << dataSources, configs, results >>

(***************************************************************************)
(* Data sources and stratification requests                                *)
(***************************************************************************)
\* The most data sources and stratification configs a project is given.
MaxSources == 2
MaxConfigs == 1

\* POST /data-sources: DataSourceService.upload_data_source
UploadDataSource(name, source_type) ==
    /\ ProjectExists
    /\ Len(dataSources) < MaxSources
    /\ dataSources' = Append(dataSources,
                        [ name |-> name, source_type |-> source_type,
                          quality_score |-> -1 ])
    /\ request' = Request("upload_data_source", None, None, None)
    /\ response' = Response(201, << >>, NoVerdict, NoState)
    /\ UNCHANGED << wf, configs, results >>

\* POST /data-sources/{id}/quality-check: run_quality_checks stores the
\* report's overall score (here in percent) on the data source.
RunQualityChecks(id, overall_score) ==
    /\ ProjectExists
    /\ id \in DOMAIN dataSources
    /\ dataSources' = [ dataSources EXCEPT ![id].quality_score = overall_score ]
    /\ request' = Request("run_quality_checks", None, None, None)
    /\ response' = Response(200, << >>, NoVerdict, NoState)
    /\ UNCHANGED << wf, configs, results >>

\* POST /stratification/configs
CreateConfig(name, th) ==
    /\ ProjectExists
    /\ Len(configs) < MaxConfigs
    /\ configs' = Append(configs,
                    [ name |-> name, thresholds |-> th, is_active |-> TRUE ])
    /\ request' = Request("create_config", None, None, None)
    /\ response' = Response(201, << >>, NoVerdict, NoState)
    /\ UNCHANGED << wf, dataSources, results >>

\* PATCH /stratification/configs/{id} with is_active
UpdateConfig(config_id, is_active) ==
    /\ ProjectExists
    /\ config_id \in DOMAIN configs
    /\ configs' = [ configs EXCEPT ![config_id].is_active = is_active ]
    /\ request' = Request("update_config", None, None, None)
    /\ response' = Response(200, << >>, NoVerdict, NoState)
    /\ UNCHANGED << wf, dataSources, results >>

\* Mutant of calculate_stratification: the previous results are kept.
CalculateStratification_KeepOld(config_id, items) ==
    /\ ProjectExists
    /\ config_id \in DOMAIN configs
    /\ results' = results
                  \o SeqMapResults(config_id, configs[config_id].thresholds,
                                   items)
    /\ request' = Request("calculate_stratification", None, None, None)
    /\ response' = Response(200, << >>, NoVerdict, NoState)
    /\ UNCHANGED << wf, dataSources, configs >>

\* POST /stratification/configs/{id}/calculate
CalculateStratification(config_id, items) ==
    /\ ProjectExists
    /\ config_id \in DOMAIN configs
    /\ results' = DeleteResults(results, config_id)
                  \o SeqMapResults(config_id, configs[config_id].thresholds,
                                   items)
    /\ request' = Request("calculate_stratification", None, None, None)
    /\ response' = Response(200, << >>, NoVerdict, NoState)
    /\ UNCHANGED << wf, dataSources, configs >>

(***************************************************************************)
(* Request inputs                                                          *)
(***************************************************************************)
Users == { "u1", "u2" }
Times == { "t1", "t2" }

PLANNING == "planning_preparedness"

\* Planning payloads sent with PATCH: complete, complete with a timeline,
\* and lacking the operational unit.
PlanningPayloads ==
    { { "scope_of_work", "operational_unit" },
      { "scope_of_work", "operational_unit", "timeline" },
      { "scope_of_work" } }

\* very_low [0,1), low [1,10), moderate [10,35), high [35,100)
DefaultThresholds ==
    ( "very_low" :> [ min_value |-> 0, max_value |-> 1 ] ) @@
    ( "low" :> [ min_value |-> 1, max_value |-> 10 ] ) @@
    ( "moderate" :> [ min_value |-> 10, max_value |-> 35 ] ) @@
    ( "high" :> [ min_value |-> 35, max_value |-> 100 ] )

ItemLists ==
    { << >>, << [ admin_unit_name |-> "A", metric_value |-> 5 ] >> }

\* The classifier, forecast and graph-walk harnesses at rest.
RiskIdle ==
    /\ metricValue = 0
    /\ riskLevel = None

ForecastIdle ==
    /\ fcOrder = << >>
    /\ fcIdx = 0
    /\ fcCase = << >>
    /\ fcDeath = << >>
    /\ fcDone = FALSE

GraphIdle ==
    /\ gTop = 0
    /\ gStack = << >>
    /\ gVisited = {}
    /\ gCycle = FALSE

HarnessIdle ==
    /\ thresholds = DefaultThresholds
    /\ RiskIdle
    /\ ForecastIdle
    /\ GraphIdle

\* Two database sessions, one per request in flight (get_db opens one for
\* each request).
SessionIds == { "s1", "s2" }

\* A session with no transaction begun.
NoSession ==
    [ pc |-> "idle", config_id |-> 0, items |-> << >>, snapshot |-> {},
      deleted |-> {}, pending |-> << >> ]

NoSessions == [ s \in SessionIds |-> NoSession ]

\* No project yet.
NoProject ==
    /\ wf = NoRows
    /\ dataSources = << >>
    /\ configs = << >>
    /\ results = << >>
    /\ request = Request("none", None, None, None)
    /\ response = Response(0, << >>, NoVerdict, NoState)
    /\ scenarios = << >>
    /\ costItems = << >>
    /\ forecasts = << >>
    /\ sessions = NoSessions

Idle == UNCHANGED << riskVars, fcVars, graphVars, scnVars, txVars >>

(***************************************************************************)
(* Spec: the life of a project's first two steps under every workflow      *)
(* request.  No data source is uploaded here.                              *)
(***************************************************************************)
StepInputs == { PLANNING, "data_assembly" }

UpdateInputs ==
    { << s, StepUpdateRequest(None, -1, NoData) >> : s \in StepInputs }
    \cup { << PLANNING, StepUpdateRequest(None, -1, d) >> : d \in PlanningPayloads }
    \cup { << "data_assembly", StepUpdateRequest("note", 50, NoData) >> }

Init == NoProject /\ HarnessIdle

Next ==
    \/ CreateProject /\ Idle
    \/ GetWorkflow /\ Idle
    \/ \E in \in UpdateInputs : UpdateStep(in[1], in[2]) /\ Idle
    \/ \E step \in StepInputs : ValidateStep(step) /\ Idle
    \/ \E step \in StepInputs, u \in Users, t \in Times :
          CompleteStep(step, u, t) /\ Idle
    \/ \E step \in StepInputs : ReopenStep(step) /\ Idle

Spec == Init /\ [][Next]_vars

(***************************************************************************)
(* Properties of Spec                                                      *)
(***************************************************************************)
CompletedSteps(w) == { s \in DOMAIN w : w[s].status = COMPLETED }

\* C2: creating a project stores exactly 10 workflow states, one per
\* WorkflowStep, each not_started with completion 0; GET workflow on the
\* project as created returns 10 steps, overall_progress 0 and current_step
\* planning_preparedness.
C2_CreateInitializesWorkflow ==
    /\ request.op = "create_project" =>
          /\ DOMAIN wf = WorkflowStep
          /\ Cardinality(DOMAIN wf) = 10
          /\ \A s \in WorkflowStep :
                /\ wf[s].status = NOT_STARTED
                /\ wf[s].completion_percentage = 0
    /\ ( /\ request.op = "get_workflow"
         /\ \A s \in DOMAIN wf : wf[s] = [ status |-> NOT_STARTED,
                completion_percentage |-> 0, notes |-> None, data |-> NoData,
                validation_errors |-> NoValidation, completed_at |-> None,
                completed_by |-> None ] ) =>
          /\ Len(response.state.steps) = 10
          /\ { response.state.steps[i].step : i \in 1..10 } = WorkflowStep
          /\ \A i \in 1..10 : response.state.steps[i].status = NOT_STARTED
          /\ response.state.overall_progress = 0
          /\ response.state.current_step = WORKFLOW_STEP_ORDER[1]
          /\ response.state.current_step = "planning_preparedness"

\* GET workflow has answered for a project nothing has touched since its
\* creation.
C2_Witness ==
    /\ request.op = "get_workflow"
    /\ Len(response.state.steps) = 10
    /\ \A s \in WorkflowStep :
          s \in DOMAIN wf /\ wf[s].status = NOT_STARTED
          /\ wf[s].data = NoData /\ ~wf[s].validation_errors.stored

\* C3: complete_step(planning) succeeds whenever the stored planning
\* payload has a non-empty scope_of_work and operational_unit, with or
\* without a timeline; GET workflow reports overall_progress =
\* completed_count / 10 * 100, and once planning is completed and
\* data_assembly is not, current_step = data_assembly, which is accessible.
C3_PlanningCompletes ==
    [][ /\ ( /\ request'.op = "complete_step"
             /\ request'.step = "planning_preparedness"
             /\ { "scope_of_work", "operational_unit" }
                    \subseteq DataOrEmpty(wf["planning_preparedness"].data) )
           => /\ response'.code = 200
              /\ wf'["planning_preparedness"].status = COMPLETED
        /\ request'.op = "get_workflow" =>
              /\ response'.state.overall_progress
                    = 10 * Cardinality(CompletedSteps(wf'))
              /\ ( /\ wf'["planning_preparedness"].status = COMPLETED
                   /\ wf'["data_assembly"].status # COMPLETED )
                 => /\ response'.state.current_step = "data_assembly"
                    /\ response'.state.steps[2].step = "data_assembly"
                    /\ response'.state.steps[2].is_accessible
      ]_vars

\* Planning was completed on a payload without a timeline and GET workflow
\* then reported 10% and data_assembly as the current step.
C3_Witness ==
    /\ request.op = "get_workflow"
    /\ wf["planning_preparedness"].status = COMPLETED
    /\ wf["planning_preparedness"].data = { "scope_of_work", "operational_unit" }
    /\ wf["planning_preparedness"].validation_errors.warnings # << >>
    /\ CompletedSteps(wf) = { "planning_preparedness" }
    /\ response.state.overall_progress = 10
    /\ response.state.current_step = "data_assembly"

(***************************************************************************)
(* SpecGate: completion requests against every kind of validator, with the *)
(* requests that change what the validators read (step payloads, data      *)
(* sources, stratification configs and results).                           *)
(***************************************************************************)
GateSteps ==
    { "planning_preparedness", "data_assembly", "situation_analysis",
      "stratification", "intervention_tailoring" }

GateUpdates ==
    { << "planning_preparedness", StepUpdateRequest(None, -1, d) >> :
         d \in { { "scope_of_work", "operational_unit" }, { "timeline" }, {} } }
    \cup { << "situation_analysis",
              StepUpdateRequest(None, -1, { "analysis_completed" }) >> }

\* The stratification requests of SpecGate address the first config.
GateConfigIds == { 1 }

NextGate ==
    \/ CreateProject /\ Idle
    \/ \E in \in GateUpdates : UpdateStep(in[1], in[2]) /\ Idle
    \/ \E type \in { "epidemiological", "demographic" } :
          UploadDataSource("ds", type) /\ Idle
    \/ CreateConfig("cfg", DefaultThresholds) /\ Idle
    \/ \E id \in GateConfigIds, a \in BOOLEAN : UpdateConfig(id, a) /\ Idle
    \/ \E id \in GateConfigIds, items \in ItemLists :
          CalculateStratification(id, items) /\ Idle
    \/ \E step \in GateSteps : CompleteStep(step, "u1", "t1") /\ Idle

SpecGate == Init /\ [][NextGate]_vars

\* C1: complete_step is a strict gate.  It succeeds (HTTP 200) exactly when
\* the step's validator finds no error in the stored state; on success the
\* step is completed at 100% with completed_at and completed_by set to the
\* call time and the caller; otherwise it answers 400 with a message that
\* joins every validator error, and the step's status is left as it was.
C1_StrictGate ==
    [][ request'.op = "complete_step" =>
          LET step == request'.step
              verdict == Validator(wf, dataSources, configs, results, step)
              n == Len(verdict.errors)
          IN  /\ (response'.code = 200) <=> (n = 0)
              /\ response'.code = 200 =>
                    /\ wf'[step].status = COMPLETED
                    /\ wf'[step].completion_percentage = 100
                    /\ request'.now # None /\ request'.user_id # None
                    /\ wf'[step].completed_at = request'.now
                    /\ wf'[step].completed_by = request'.user_id
              /\ response'.code # 200 =>
                    /\ response'.code = 400
                    /\ Len(response'.detail) = 2 * n
                    /\ response'.detail[1].text = "Step cannot be completed: "
                    /\ \A i \in 1..n : response'.detail[2 * i] = verdict.errors[i]
                    /\ \A i \in 1..(n - 1) : response'.detail[2 * i + 1].text = ", "
                    /\ wf'[step].status = wf[step].status
      ]_vars

\* With data_assembly already completed, complete_step on planning was
\* refused with both of its errors joined.
C1_Witness ==
    /\ request.op = "complete_step"
    /\ request.step = "planning_preparedness"
    /\ response.code = 400
    /\ Len(response.errors) = 2
    /\ Len(response.detail) = 4
    /\ wf["planning_preparedness"].status # COMPLETED
    /\ wf["data_assembly"].status = COMPLETED
    /\ wf["data_assembly"].completed_by = "u1"
    /\ wf["stratification"].status = COMPLETED

(***************************************************************************)
(* SpecChain: completion and reopening along the prerequisite chain.  The  *)
(* requests address three consecutive generic steps and the two steps      *)
(* joined by the non-blocking edge.                                        *)
(***************************************************************************)
ChainSteps ==
    { "intervention_tailoring", "impact_forecasting", "scenario_selection",
      "service_delivery", "monitoring_evaluation" }

ChainUpdates ==
    { << "impact_forecasting", StepUpdateRequest(None, -1, NoData) >>,
      << "monitoring_evaluation", StepUpdateRequest(None, -1, NoData) >> }

NextChain ==
    \/ CreateProject /\ Idle
    \/ \E in \in ChainUpdates : UpdateStep(in[1], in[2]) /\ Idle
    \/ \E step \in ChainSteps : CompleteStep(step, "u1", "t1") /\ Idle
    \/ \E step \in ChainSteps : ReopenStep(step) /\ Idle

SpecChain == Init /\ [][NextChain]_vars

\* The steps that list step as a prerequisite of the given type.
DependentsOf(step, type) ==
    { s \in WorkflowStep :
        \E i \in DOMAIN PREREQUISITES[s] : PREREQUISITES[s][i] = << step, type >> }

\* The prerequisites of the given type that step lists.
PrerequisitesOf(step, type) ==
    { PREREQUISITES[step][i][1] :
        i \in { j \in DOMAIN PREREQUISITES[step] : PREREQUISITES[step][j][2] = type } }

\* Status and completion metadata of a row.
Completion(state) ==
    << state.status, state.completion_percentage, state.completed_at,
       state.completed_by >>

\* C4: reopen_step is idempotent.  A reopen request that follows a reopen
\* request for the same step changes no row, and applying reopen_step to
\* the state a reopen produced gives that state again; reopening a step
\* that is already in_progress leaves it in_progress and changes no step
\* other than its direct blocking dependents.
C4_ReopenIdempotent ==
    [][ request'.op = "reopen_step" =>
          LET S == request'.step
          IN  /\ (request.op = "reopen_step" /\ request.step = S) => wf' = wf
              /\ \A s \in WorkflowStep :
                    Completion(reopen_step(wf', S)[s]) = Completion(wf'[s])
              /\ wf[S].status = IN_PROGRESS =>
                    /\ wf'[S] = wf[S]
                    /\ \A s \in WorkflowStep \ DependentsOf(S, BLOCKING) :
                          wf'[s] = wf[s]
      ]_vars

\* impact_forecasting has been reopened while in_progress; its dependent
\* scenario_selection, completed earlier, is in_progress too.
C4_Witness ==
    /\ request.op = "reopen_step"
    /\ request.step = "impact_forecasting"
    /\ wf["impact_forecasting"].status = IN_PROGRESS
    /\ wf["impact_forecasting"].validation_errors.stored
    /\ wf["scenario_selection"].status = IN_PROGRESS
    /\ wf["scenario_selection"].validation_errors.stored
    /\ wf["intervention_tailoring"].status = COMPLETED

\* C5: reopen_step(S) cascades exactly one level.  S becomes in_progress
\* with completed_at and completed_by cleared; each completed step that
\* lists S as a BLOCKING prerequisite becomes in_progress with its
\* completion metadata cleared; every other row is unchanged.
C5_ReopenCascadesOneLevel ==
    [][ request'.op = "reopen_step" =>
          LET S == request'.step
              cleared(s) ==
                  wf'[s] = [ wf[s] EXCEPT !.status = IN_PROGRESS,
                                          !.completed_at = None,
                                          !.completed_by = None ]
          IN  /\ cleared(S)
              /\ \A s \in WorkflowStep \ { S } :
                    IF s \in DependentsOf(S, BLOCKING)
                       /\ wf[s].status = COMPLETED
                    THEN cleared(s)
                    ELSE wf'[s] = wf[s]
      ]_vars

\* intervention_tailoring has been reopened: its direct dependent was reset
\* while scenario_selection, two hops away, is still completed.
C5_Witness ==
    /\ request.op = "reopen_step"
    /\ request.step = "intervention_tailoring"
    /\ wf["intervention_tailoring"].status = IN_PROGRESS
    /\ wf["impact_forecasting"].status = IN_PROGRESS
    /\ wf["impact_forecasting"].validation_errors.stored
    /\ wf["scenario_selection"].status = COMPLETED
    /\ wf["monitoring_evaluation"].status = COMPLETED
    /\ wf["service_delivery"].status = IN_PROGRESS

\* C6: GET workflow changes no stored row and derives its answer from the
\* stored statuses: a step is accessible exactly when every one of its
\* BLOCKING prerequisites is completed, whatever its non-blocking ones are,
\* and current_step is the first step in order that is not completed and
\* accessible, or None when there is none.
C6_GetStateDerived ==
    [][ request'.op = "get_workflow" =>
          LET steps == response'.state.steps
              accessible(s) ==
                  \A p \in PrerequisitesOf(s, BLOCKING) : wf[p].status = COMPLETED
              candidates ==
                  { i \in 1..10 :
                      /\ wf[WORKFLOW_STEP_ORDER[i]].status # COMPLETED
                      /\ accessible(WORKFLOW_STEP_ORDER[i]) }
          IN  /\ UNCHANGED << wf, dataSources, configs, results >>
              /\ Len(steps) = 10
              /\ \A i \in 1..10 :
                    /\ steps[i].step = WORKFLOW_STEP_ORDER[i]
                    /\ steps[i].status = wf[steps[i].step].status
                    /\ steps[i].is_accessible <=> accessible(steps[i].step)
              /\ IF candidates = {}
                 THEN response'.state.current_step = None
                 ELSE \E i \in candidates :
                         /\ \A j \in candidates : i <= j
                         /\ response'.state.current_step = WORKFLOW_STEP_ORDER[i]
      ]_vars

\* GET workflow answered with data_assembly as current step, with
\* situation_analysis inaccessible and with monitoring_evaluation
\* accessible although its non-blocking prerequisite is not completed.
C6_Witness ==
    /\ request.op = "get_workflow"
    /\ response.state.current_step = "data_assembly"
    /\ wf["planning_preparedness"].status = COMPLETED
    /\ ~response.state.steps[3].is_accessible
    /\ response.state.steps[10].is_accessible
    /\ response.state.steps[10].non_blocking_prerequisites # << >>
    /\ wf["service_delivery"].status # COMPLETED

(***************************************************************************)
(* SpecGraph: the walk of the prerequisite graph that                      *)
(* test_no_circular_dependencies performs: visit(step, set()) for every    *)
(* step in order, each visit descending into every prerequisite with a     *)
(* copy of the path and raising when it meets a step already on the path.  *)
(***************************************************************************)
Frame(step, done) == [ step |-> step, done |-> done ]

\* The path argument of the innermost visit(), the step itself included.
PathOf(stack) == { stack[k].step : k \in DOMAIN stack }

\* for step in WorkflowStep: visit(step, set())
VisitStep ==
    /\ ~gCycle
    /\ gStack = << >>
    /\ gTop < Len(WORKFLOW_STEP_ORDER)
    /\ gTop' = gTop + 1
    /\ gStack' = << Frame(WORKFLOW_STEP_ORDER[gTop + 1], 0) >>
    /\ UNCHANGED << gVisited, gCycle >>

\* for prereq, _ in PREREQUISITES.get(step, []): visit(prereq, path.copy())
VisitPrereq ==
    /\ ~gCycle
    /\ gStack # << >>
    /\ LET n == Len(gStack)
           f == gStack[n]
       IN  /\ f.done < Len(PrereqsOf(f.step))
           /\ LET prereq == PrereqsOf(f.step)[f.done + 1][1]
              IN  IF prereq \in PathOf(gStack)
                  THEN /\ gCycle' = TRUE
                       /\ UNCHANGED gStack
                  ELSE /\ gStack' = Append([ gStack EXCEPT ![n].done = f.done + 1 ],
                                           Frame(prereq, 0))
                       /\ UNCHANGED gCycle
    /\ UNCHANGED << gTop, gVisited >>

\* visited.add(step), and visit() returns
VisitReturn ==
    /\ ~gCycle
    /\ gStack # << >>
    /\ LET n == Len(gStack)
           f == gStack[n]
       IN  /\ f.done = Len(PrereqsOf(f.step))
           /\ gVisited' = gVisited \cup { f.step }
           /\ gStack' = SubSeq(gStack, 1, n - 1)
    /\ UNCHANGED << gTop, gCycle >>

NextGraph ==
    \/ VisitStep /\ UNCHANGED << wfVars, scnVars, txVars, riskVars, fcVars >>
    \/ VisitPrereq /\ UNCHANGED << wfVars, scnVars, txVars, riskVars, fcVars >>
    \/ VisitReturn /\ UNCHANGED << wfVars, scnVars, txVars, riskVars, fcVars >>

SpecGraph == Init /\ [][NextGraph]_vars

\* The prerequisites of either type that the steps of S list.
DirectlyRequired(S) ==
    UNION { PrerequisitesOf(s, BLOCKING) \cup PrerequisitesOf(s, NON_BLOCKING) :
              s \in S \cap DOMAIN PREREQUISITES }

\* S and everything reached from it along at most k prerequisite edges.
RECURSIVE Closure(_, _)
Closure(S, k) ==
    IF k = 0 THEN S ELSE Closure(S \cup DirectlyRequired(S), k - 1)

\* Every step that step requires, directly or through other steps.
TransitivelyRequired(step) ==
    Closure(DirectlyRequired({ step }), Len(WORKFLOW_STEP_ORDER))

\* C7: the prerequisite graph is well formed.  WORKFLOW_STEP_ORDER lists
\* exactly 10 distinct steps, every step has an entry in PREREQUISITES, the
\* first step has no blocking prerequisite, the last step is
\* monitoring_evaluation and has only non-blocking prerequisites, no step
\* transitively requires itself, and the walk never meets a step that is
\* already on its path.
C7_GraphWellFormed ==
    /\ Len(WORKFLOW_STEP_ORDER) = 10
    /\ Cardinality(WorkflowStep) = 10
    /\ \A s \in WorkflowStep : s \in DOMAIN PREREQUISITES
    /\ PrerequisitesOf(WORKFLOW_STEP_ORDER[1], BLOCKING) = {}
    /\ WORKFLOW_STEP_ORDER[10] = "monitoring_evaluation"
    /\ PrerequisitesOf("monitoring_evaluation", BLOCKING) = {}
    /\ PrerequisitesOf("monitoring_evaluation", NON_BLOCKING) # {}
    /\ \A s \in WorkflowStep : s \notin TransitivelyRequired(s)
    /\ ~gCycle

\* The walk has descended from the last step to the first one, all ten
\* steps being on the path.
C7_Witness ==
    /\ Len(gStack) = 10
    /\ gStack[1].step = "monitoring_evaluation"
    /\ gStack[10].step = "planning_preparedness"
    /\ PathOf(gStack) = WorkflowStep
    /\ gVisited = WorkflowStep \ { "monitoring_evaluation" }
    /\ ~gCycle

(***************************************************************************)
(* SpecData: data sources are uploaded and quality-checked while the       *)
(* data_assembly step is validated and completed.                          *)
(***************************************************************************)
DATA_ASSEMBLY == "data_assembly"

SourceTypes == { "epidemiological", "demographic", "entomological" }

\* Overall scores of a quality report, in percent: below and at 0.5.
Scores == { 40, 50 }

NextData ==
    \/ CreateProject /\ Idle
    \/ \E t \in SourceTypes : UploadDataSource("ds", t) /\ Idle
    \/ \E id \in 1..MaxSources, score \in Scores :
          RunQualityChecks(id, score) /\ Idle
    \/ ValidateStep(DATA_ASSEMBLY) /\ Idle
    \/ CompleteStep(DATA_ASSEMBLY, "u1", "t1") /\ Idle

SpecData == Init /\ [][NextData]_vars

\* C8: validation of data_assembly.  With no data source the only error is
\* "No data sources uploaded" and completion fails; with at least one, the
\* step is valid exactly when the source types cover epidemiological and
\* demographic, and otherwise there is one error naming the missing types;
\* each source scoring below 0.5 adds a warning and nothing else, so it
\* never blocks completion.
C8_DataAssemblyValidation ==
    [][ (request'.op \in { "validate_step", "complete_step" }
         /\ request'.step = DATA_ASSEMBLY) =>
          LET n == Len(dataSources)
              types == { dataSources[i].source_type : i \in 1..n }
              missing == { "epidemiological", "demographic" } \ types
              low == { i \in 1..n : /\ dataSources[i].quality_score # -1
                                    /\ dataSources[i].quality_score < 50 }
              errors == response'.errors
              warnings == response'.warnings
              valid == n > 0 /\ missing = {}
          IN  /\ n = 0 =>
                   /\ errors = << Msg("No data sources uploaded", {}, -1) >>
                   /\ warnings = << >>
              /\ n > 0 =>
                   /\ missing = {} => errors = << >>
                   /\ missing # {} =>
                        errors = << Msg("Missing required data types: ",
                                        missing, -1) >>
                   /\ Len(warnings) = Cardinality(low)
                   /\ \A k \in DOMAIN warnings :
                         warnings[k].text = "Low quality score for"
              /\ request'.op = "validate_step" =>
                   /\ response'.code = 200
                   /\ wf'[DATA_ASSEMBLY].validation_errors.errors = errors
                   /\ wf'[DATA_ASSEMBLY].status = wf[DATA_ASSEMBLY].status
              /\ request'.op = "complete_step" =>
                   IF valid
                   THEN /\ response'.code = 200
                        /\ wf'[DATA_ASSEMBLY].status = COMPLETED
                   ELSE /\ response'.code = 400
                        /\ wf' = wf
      ]_vars

\* data_assembly was completed although a data source scores 40%.
C8_Witness ==
    /\ request.op = "complete_step"
    /\ request.step = DATA_ASSEMBLY
    /\ response.code = 200
    /\ response.warnings # << >>
    /\ wf[DATA_ASSEMBLY].status = COMPLETED
    /\ \E i \in DOMAIN dataSources : dataSources[i].quality_score = 40

(***************************************************************************)
(* SpecRisk: _assign_risk_level applied to metric values under threshold   *)
(* bands that cover [0, 100) contiguously.  Values and band limits are     *)
(* numbers on one integer scale; metric_value is taken from the request's  *)
(* items as it comes, so values below 0 and from 100 up occur.             *)
(***************************************************************************)
MaxMetric == 101

MetricValues == { -1 } \cup 0..MaxMetric

\* The limits between consecutive bands.
CutPoints == { 1, 5, 10, 35, 60 }

Bands(c1, c2, c3) ==
    [ very_low |-> [ min_value |-> 0, max_value |-> c1 ],
      low |-> [ min_value |-> c1, max_value |-> c2 ],
      moderate |-> [ min_value |-> c2, max_value |-> c3 ],
      high |-> [ min_value |-> c3, max_value |-> 100 ] ]

ContiguousBands ==
    { Bands(c1, c2, c3) :
        << c1, c2, c3 >> \in { c \in CutPoints \X CutPoints \X CutPoints :
                                c[1] < c[2] /\ c[2] < c[3] } }

InitRisk ==
    /\ NoProject
    /\ thresholds \in ContiguousBands
    /\ RiskIdle
    /\ ForecastIdle
    /\ GraphIdle

\* risk_level = self._assign_risk_level(metric_value, config.thresholds)
AssignRiskLevel(metric_value) ==
    /\ metricValue' = metric_value
    /\ riskLevel' = _assign_risk_level(metric_value, thresholds)
    /\ UNCHANGED thresholds

NextRisk ==
    \E v \in MetricValues :
        AssignRiskLevel(v) /\ UNCHANGED << wfVars, scnVars, txVars, fcVars, graphVars >>

SpecRisk == InitRisk /\ [][NextRisk]_vars

\* Position of a level in the ascending order of risk.
Rank(level) == CHOOSE i \in DOMAIN RISK_LEVELS : RISK_LEVELS[i] = level

\* The levels whose band [min_value, max_value) contains v.
Containing(v, th) ==
    { i \in DOMAIN RISK_LEVELS :
        /\ th[RISK_LEVELS[i]].min_value <= v
        /\ v < th[RISK_LEVELS[i]].max_value }

\* C9: under bands covering [0, 100) contiguously, every metric value gets
\* exactly one of very_low, low, moderate, high: the first band in that
\* order whose [min, max) contains the value, high when none does; and a
\* value that is not smaller than another never gets a lower level.
C9_RiskLevelMonotone ==
    [][ riskLevel' # None =>
          LET in == Containing(metricValue', thresholds)
          IN  /\ riskLevel' \in { "very_low", "low", "moderate", "high" }
              /\ IF in = {}
                 THEN riskLevel' = "high"
                 ELSE \E i \in in : /\ \A j \in in : i <= j
                                    /\ riskLevel' = RISK_LEVELS[i]
              /\ (riskLevel # None /\ metricValue <= metricValue') =>
                    Rank(riskLevel) <= Rank(riskLevel')
      ]_vars

(***************************************************************************)
(* Python floats (forecast_service.py computes in IEEE-754 binary64).      *)
(* A natural number is the sequence of its base-2^14 digits, lowest first, *)
(* without leading zeros; a float in [0, 1] is the natural number          *)
(* value * 2^70, and every operation rounds its exact result to 53         *)
(* significant bits, ties to even.                                         *)
(***************************************************************************)
Base == 16384
LimbBits == 14
Mantissa == 53
ScaleLimbs == 5

RECURSIVE Trim(_)
Trim(a) ==
    IF a = << >> THEN a
    ELSE IF a[Len(a)] = 0 THEN Trim(SubSeq(a, 1, Len(a) - 1)) ELSE a

Limb(a, i) == IF i \in DOMAIN a THEN a[i] ELSE 0

Zeros(n) == [ i \in 1..n |-> 0 ]

ShiftLimbs(a, n) == IF a = << >> THEN a ELSE Zeros(n) \o a

RECURSIVE AddFrom(_, _, _, _)
AddFrom(a, b, i, carry) ==
    IF i > Len(a) /\ i > Len(b)
    THEN IF carry = 0 THEN << >> ELSE << carry >>
    ELSE LET t == Limb(a, i) + Limb(b, i) + carry
         IN  << t % Base >> \o AddFrom(a, b, i + 1, t \div Base)

BAdd(a, b) == AddFrom(a, b, 1, 0)

\* a - b for a >= b
RECURSIVE SubFrom(_, _, _, _)
SubFrom(a, b, i, borrow) ==
    IF i > Len(a) THEN << >>
    ELSE LET t == Limb(a, i) - Limb(b, i) - borrow
         IN  IF t < 0
             THEN << t + Base >> \o SubFrom(a, b, i + 1, 1)
             ELSE << t >> \o SubFrom(a, b, i + 1, 0)

BSub(a, b) == Trim(SubFrom(a, b, 1, 0))

\* a * k for a digit k
RECURSIVE MulSmallFrom(_, _, _, _)
MulSmallFrom(a, k, i, carry) ==
    IF i > Len(a)
    THEN IF carry = 0 THEN << >> ELSE << carry >>
    ELSE LET t == a[i] * k + carry
         IN  << t % Base >> \o MulSmallFrom(a, k, i + 1, t \div Base)

BMulSmall(a, k) == IF k = 0 THEN << >> ELSE MulSmallFrom(a, k, 1, 0)

RECURSIVE MulFrom(_, _, _)
MulFrom(a, b, i) ==
    IF i > Len(b) THEN << >>
    ELSE BAdd(ShiftLimbs(BMulSmall(a, b[i]), i - 1), MulFrom(a, b, i + 1))

BMul(a, b) == MulFrom(a, b, 1)

BLess(a, b) ==
    IF Len(a) # Len(b) THEN Len(a) < Len(b)
    ELSE \E i \in DOMAIN a :
            /\ a[i] < b[i]
            /\ \A j \in DOMAIN a : j > i => a[j] = b[j]

\* Quotient and remainder of the digits i, i-1, ..., 1 of a, preceded by
\* the remainder rem, by the digit k.
RECURSIVE DivSmallFrom(_, _, _, _)
DivSmallFrom(a, k, i, rem) ==
    IF i = 0 THEN [ q |-> << >>, r |-> rem ]
    ELSE LET t == rem * Base + a[i]
             lower == DivSmallFrom(a, k, i - 1, t % k)
         IN  [ q |-> Append(lower.q, t \div k), r |-> lower.r ]

BDivSmall(a, k) ==
    LET d == DivSmallFrom(a, k, Len(a), 0)
    IN  [ q |-> Trim(d.q), r |-> d.r ]

RECURSIVE BitsOf(_)
BitsOf(n) == IF n = 0 THEN 0 ELSE 1 + BitsOf(n \div 2)

BitLen(a) ==
    IF a = << >> THEN 0 ELSE LimbBits * (Len(a) - 1) + BitsOf(a[Len(a)])

\* a * 2^n
ShiftLeft(a, n) == BMulSmall(ShiftLimbs(a, n \div LimbBits), 2 ^ (n % LimbBits))

\* floor(a / 2^n)
ShiftRight(a, n) ==
    BDivSmall(SubSeq(a, n \div LimbBits + 1, Len(a)), 2 ^ (n % LimbBits)).q

\* The number with 53 significant bits nearest to m (to m plus a fraction
\* when inexact), ties to even.
RoundToMantissa(m, inexact) ==
    IF BitLen(m) <= Mantissa THEN m
    ELSE LET d == BitLen(m) - Mantissa
             q == ShiftRight(m, d)
             rem == BSub(m, ShiftLeft(q, d))
             half == ShiftLeft(<< 1 >>, d - 1)
             up == \/ BLess(half, rem)
                   \/ rem = half /\ (inexact \/ q[1] % 2 = 1)
         IN  ShiftLeft(IF up THEN BAdd(q, << 1 >>) ELSE q, d)

\* 1.0
One == Zeros(ScaleLimbs) \o << 1 >>

\* The float written as the decimal literal p/q.
Float(p, q) ==
    LET d == BDivSmall(ShiftLimbs(<< p >>, 2 * ScaleLimbs), q)
        m == RoundToMantissa(d.q, d.r # 0)
    IN  IF p = 0 THEN << >> ELSE SubSeq(m, ScaleLimbs + 1, Len(m))

FAdd(x, y) == RoundToMantissa(BAdd(x, y), FALSE)

\* x - y for x >= y
FSub(x, y) == RoundToMantissa(BSub(x, y), FALSE)

FMul(x, y) ==
    LET m == RoundToMantissa(BMul(x, y), FALSE)
    IN  IF m = << >> THEN m ELSE SubSeq(m, ScaleLimbs + 1, Len(m))

\* min(x, y)
FMin(x, y) == IF BLess(y, x) THEN y ELSE x

(***************************************************************************)
(* More of Python's floats: integers as floats, division, and signed       *)
(* values.  A signed float is its sign and the magnitude's natural         *)
(* number; zero is never negative.                                         *)
(***************************************************************************)
RECURSIVE IntLimbs(_)
IntLimbs(n) == IF n = 0 THEN << >> ELSE << n % Base >> \o IntLimbs(n \div Base)

\* float(n) for a natural number n
FFromInt(n) == ShiftLimbs(IntLimbs(n), ScaleLimbs)

\* The greatest digit k in lo..hi with b * k <= a, where b * lo <= a.
RECURSIVE DigitSearch(_, _, _, _)
DigitSearch(a, b, lo, hi) ==
    IF lo = hi THEN lo
    ELSE LET mid == (lo + hi + 1) \div 2
         IN  IF BLess(a, BMulSmall(b, mid))
             THEN DigitSearch(a, b, lo, mid - 1)
             ELSE DigitSearch(a, b, mid, hi)

\* One step of long division: the digit joins the remainder rem below it,
\* the quotient q gets the next lower digit.
DivStep(digit, b, rem, q) ==
    LET t == Trim(<< digit >> \o rem)
        k == DigitSearch(t, b, 0, Base - 1)
    IN  [ q |-> << k >> \o q, r |-> BSub(t, BMulSmall(b, k)) ]

\* Long division of the digits i, i-1, ..., 1 of a by the natural number b,
\* given the quotient q and remainder rem of the digits above them.
RECURSIVE DivFrom(_, _, _, _, _)
DivFrom(a, b, i, rem, q) ==
    IF i = 0 THEN [ q |-> q, r |-> rem ]
    ELSE \* each step is computed once
         CHOOSE d \in { DivFrom(a, b, i - 1, st.r, st.q) :
                           st \in { DivStep(a[i], b, rem, q) } } : TRUE

BDivMod(a, b) ==
    LET d == DivFrom(a, b, Len(a), << >>, << >>)
    IN  [ q |-> Trim(d.q), r |-> d.r ]

\* x / y for y > 0
FDiv(x, y) ==
    LET d == BDivMod(ShiftLimbs(x, 2 * ScaleLimbs), y)
        m == RoundToMantissa(d.q, d.r # << >>)
    IN  IF m = << >> THEN m ELSE SubSeq(m, ScaleLimbs + 1, Len(m))

Signed(neg, mag) == [ neg |-> neg /\ mag # << >>, mag |-> mag ]

Abs(n) == IF n < 0 THEN -n ELSE n

\* float(n) for an integer n
SFromInt(n) == Signed(n < 0, FFromInt(Abs(n)))

\* The decimal literal p/q
SFloat(p, q) == Signed(FALSE, Float(p, q))

SZero == Signed(FALSE, << >>)

SMul(x, y) == Signed(x.neg # y.neg, FMul(x.mag, y.mag))

\* x / y for y # 0
SDiv(x, y) == Signed(x.neg # y.neg, FDiv(x.mag, y.mag))

SAdd(x, y) ==
    IF x.neg = y.neg THEN Signed(x.neg, FAdd(x.mag, y.mag))
    ELSE IF BLess(x.mag, y.mag) THEN Signed(y.neg, FSub(y.mag, x.mag))
    ELSE Signed(x.neg, FSub(x.mag, y.mag))

\* x < y
SLess(x, y) ==
    IF x.neg # y.neg THEN x.neg
    ELSE IF x.neg THEN BLess(y.mag, x.mag) ELSE BLess(x.mag, y.mag)

\* x <= y
SLessEq(x, y) == ~SLess(y, x)

(***************************************************************************)
(* Forecast engine (forecast_service.py): the combined effectiveness of    *)
(* _simple_forecast.  Reductions are written in percent and read as the    *)
(* floats 0.50, 0.45, ...                                                  *)
(***************************************************************************)
INTERVENTION_EFFECTIVENESS ==
    [ itn |-> [ cases_reduction |-> 50, deaths_reduction |-> 55 ],
      irs |-> [ cases_reduction |-> 45, deaths_reduction |-> 50 ],
      smc |-> [ cases_reduction |-> 75, deaths_reduction |-> 75 ],
      iptp |-> [ cases_reduction |-> 10, deaths_reduction |-> 15 ],
      vaccine |-> [ cases_reduction |-> 40, deaths_reduction |-> 45 ],
      cm |-> [ cases_reduction |-> 20, deaths_reduction |-> 60 ],
      pmc |-> [ cases_reduction |-> 30, deaths_reduction |-> 35 ],
      lsm |-> [ cases_reduction |-> 10, deaths_reduction |-> 8 ] ]

\* INTERVENTION_EFFECTIVENESS.get(intervention, {}).get(key, 0)
Effectiveness(intervention, key) ==
    IF intervention \in DOMAIN INTERVENTION_EFFECTIVENESS
    THEN Float(INTERVENTION_EFFECTIVENESS[intervention][key], 100)
    ELSE << >>

\* The codes the model draws from, in the order sorted() gives strings:
\* upper case before lower case.  "ITN" is not a key of the table.
SORTED_CODES ==
    << "ITN", "cm", "iptp", "irs", "itn", "lsm", "pmc", "smc", "vaccine" >>

\* sorted(all_interventions)
Sorted(all_interventions) ==
    LET member(c) == c \in all_interventions
    IN  SelectSeq(SORTED_CODES, member)

\* Mutant of DiminishingReturns: the effects are added.
DiminishingReturns_Additive(combined, eff) ==
    FAdd(combined, eff)

\* combined + (1 - combined) * eff
DiminishingReturns(combined, eff) ==
    FAdd(combined, FMul(FSub(One, combined), eff))

\* The loop over the codes from position i on.  Each pass is bound through
\* a singleton set, so that its value is computed once.
RECURSIVE FoldFrom(_, _, _, _)
FoldFrom(order, i, key, combined) ==
    IF i > Len(order) THEN combined
    ELSE CHOOSE result \in
           { FoldFrom(order, i + 1, key, next) :
               next \in { DiminishingReturns(
                             combined, Effectiveness(order[i], key)) } } : TRUE

Fold(order, key) == FoldFrom(order, 1, key, << >>)

\* 0.95
CAP == Float(95, 100)

\* combined_case_reduction / combined_death_reduction of _simple_forecast
CombinedReduction(all_interventions, key) ==
    FMin(Fold(Sorted(all_interventions), key), CAP)

\* min(1.0, 0.5 + (y * 0.25))
ScaleUp(y) == IF y = 0 THEN Float(1, 2) ELSE IF y = 1 THEN Float(3, 4) ELSE One

\* The integer a sequence of limbs stands for.
RECURSIVE IntOf(_)
IntOf(a) == IF a = << >> THEN 0 ELSE a[1] + Base * IntOf(Tail(a))

\* int(x) for x >= 0
Floor(x) == IntOf(ShiftRight(x, LimbBits * ScaleLimbs))

\* year_cases / year_deaths of year y: int(baseline * (1 - reduction * scale_up))
YearValue(baseline, reduction, y) ==
    Floor(FMul(FFromInt(baseline), FSub(One, FMul(reduction, ScaleUp(y)))))

\* total_cases_averted / total_deaths_averted: the loop over range(years)
\* from year y on
RECURSIVE AvertedFrom(_, _, _, _, _)
AvertedFrom(baseline, reduction, years, y, total) ==
    IF y >= years THEN total
    ELSE AvertedFrom(baseline, reduction, years, y + 1,
                     total + (baseline - YearValue(baseline, reduction, y)))

\* The distinct codes of an assignment.
AllInterventions(interventions) ==
    UNION { { interventions[u][2][k] : k \in DOMAIN interventions[u][2] } :
              u \in DOMAIN interventions }

\* round(x, 1) for x >= 0: the float nearest to the decimal with one digit
\* that is nearest to x, ties to the even digit.
Round1(x) ==
    LET tenfold == BMulSmall(x, 10)
        whole == ShiftRight(tenfold, LimbBits * ScaleLimbs)
        rem == BSub(tenfold, ShiftLeft(whole, LimbBits * ScaleLimbs))
        half == ShiftLeft(<< 1 >>, LimbBits * ScaleLimbs - 1)
        up == \/ BLess(half, rem)
              \/ rem = half /\ Limb(whole, 1) % 2 = 1
        tenths == IF up THEN BAdd(whole, << 1 >>) ELSE whole
        d == BDivSmall(ShiftLimbs(tenths, 2 * ScaleLimbs), 10)
        m == RoundToMantissa(d.q, d.r # 0)
    IN  IF tenths = << >> THEN << >> ELSE SubSeq(m, ScaleLimbs + 1, Len(m))

\* The averted totals of _simple_forecast for baselines that are not
\* negative.
_simple_forecast(interventions, baseline_cases, baseline_deaths, years) ==
    CHOOSE forecast_data \in
      { [ cases_averted |-> total_cases_averted,
          deaths_averted |-> total_deaths_averted,
          dalys_averted |->
              Signed(FALSE,
                     Round1(FAdd(FMul(FFromInt(total_cases_averted),
                                      Float(2, 100)),
                                 FFromInt(total_deaths_averted * 30)))) ] :
          total_cases_averted \in
            { AvertedFrom(baseline_cases, reduction, years, 0, 0) :
                reduction \in { CombinedReduction(
                                   AllInterventions(interventions),
                                   "cases_reduction") } },
          total_deaths_averted \in
            { AvertedFrom(baseline_deaths, reduction, years, 0, 0) :
                reduction \in { CombinedReduction(
                                   AllInterventions(interventions),
                                   "deaths_reduction") } } } : TRUE

(***************************************************************************)
(* SpecForecast: the loop of _simple_forecast run along an arbitrary order *)
(* of the scenario's distinct codes; the code's own run is the one along   *)
(* the sorted order.                                                       *)
(***************************************************************************)
MaxCodes == 4

ScenarioCodes == { "ITN", "cm", "irs", "itn", "smc", "vaccine" }

Orders ==
    { o \in UNION { [ 1..n -> ScenarioCodes ] : n \in 0..MaxCodes } :
        \A i, j \in DOMAIN o : i # j => o[i] # o[j] }

InitForecast ==
    /\ NoProject
    /\ thresholds = DefaultThresholds
    /\ RiskIdle
    /\ GraphIdle
    /\ fcOrder \in Orders
    /\ fcIdx = 0
    /\ fcCase = << >>
    /\ fcDeath = << >>
    /\ fcDone = FALSE

\* One pass of the loop body.
FoldIntervention ==
    /\ fcIdx < Len(fcOrder)
    /\ LET intervention == fcOrder[fcIdx + 1]
       IN  /\ fcCase' = DiminishingReturns(
                           fcCase, Effectiveness(intervention, "cases_reduction"))
           /\ fcDeath' = DiminishingReturns(
                           fcDeath, Effectiveness(intervention, "deaths_reduction"))
    /\ fcIdx' = fcIdx + 1
    /\ UNCHANGED << fcOrder, fcDone >>

\* Cap at 95% reduction
CapReduction ==
    /\ fcIdx = Len(fcOrder)
    /\ ~fcDone
    /\ fcCase' = FMin(fcCase, CAP)
    /\ fcDeath' = FMin(fcDeath, CAP)
    /\ fcDone' = TRUE
    /\ UNCHANGED << fcOrder, fcIdx >>

NextForecast ==
    \/ FoldIntervention /\ UNCHANGED << wfVars, scnVars, txVars, riskVars, graphVars >>
    \/ CapReduction /\ UNCHANGED << wfVars, scnVars, txVars, riskVars, graphVars >>

SpecForecast == InitForecast /\ [][NextForecast]_vars

\* 2^-53: the spacing of the floats in [0.5, 1).
Ulp == ShiftLeft(<< 1 >>, LimbBits * ScaleLimbs - Mantissa)

\* |x - y|
Distance(x, y) == IF BLess(x, y) THEN BSub(y, x) ELSE BSub(x, y)

CodesOf(order) == { order[i] : i \in DOMAIN order }

\* C10, as amended: in the floats the code computes with, folding
\* combined + (1 - combined) * effect over the same set of codes in another
\* order than the sorted one gives the sorted-order value up to rounding
\* only (at most 2^-52 apart); for {itn, irs} the combined case reduction
\* is 0.725 when itn is folded first and 0.7250000000000001, the next
\* float, in the sorted order irs, itn that the code uses; and the final
\* value is the minimum of the folded value and 0.95.
C10_FoldUpToRounding ==
    [][ /\ (fcIdx' = Len(fcOrder') /\ ~fcDone') =>
             /\ \A sorted \in { Fold(Sorted(CodesOf(fcOrder')), "cases_reduction") } :
                   ~BLess(BAdd(Ulp, Ulp), Distance(fcCase', sorted))
             /\ \A sorted \in { Fold(Sorted(CodesOf(fcOrder')), "deaths_reduction") } :
                   ~BLess(BAdd(Ulp, Ulp), Distance(fcDeath', sorted))
             /\ fcOrder' = << "itn", "irs" >> => fcCase' = Float(725, 1000)
             /\ fcOrder' = << "irs", "itn" >> =>
                   fcCase' = BAdd(Float(725, 1000), Ulp)
        /\ (fcDone' /\ ~fcDone) =>
             /\ fcCase' = (IF BLess(Float(95, 100), fcCase)
                           THEN Float(95, 100) ELSE fcCase)
             /\ fcDeath' = (IF BLess(Float(95, 100), fcDeath)
                            THEN Float(95, 100) ELSE fcDeath)
      ]_vars

\* itn then irs has been folded to exactly 0.725, while the sorted order
\* of the same two codes folds to another value.
C10_Witness ==
    /\ fcOrder = << "itn", "irs" >>
    /\ fcIdx = 2
    /\ ~fcDone
    /\ fcCase = Float(725, 1000)
    /\ Fold(Sorted({ "itn", "irs" }), "cases_reduction") # fcCase

\* C10, as stated: the folded value is the same for every order of the
\* same set of codes, it is 0.725 for {itn, irs}, and the final value is
\* capped at 0.95.
C10_FoldOrderIndependent ==
    [][ /\ (fcIdx' = Len(fcOrder') /\ ~fcDone') =>
             /\ fcCase' = Fold(Sorted(CodesOf(fcOrder')), "cases_reduction")
             /\ fcDeath' = Fold(Sorted(CodesOf(fcOrder')), "deaths_reduction")
             /\ CodesOf(fcOrder') = { "itn", "irs" } =>
                   fcCase' = Float(725, 1000)
        /\ fcDone' =>
             /\ ~BLess(Float(95, 100), fcCase')
             /\ ~BLess(Float(95, 100), fcDeath')
      ]_vars

(***************************************************************************)
(* Scenarios (api/v1/scenarios.py, costing_service.py).  Every handler     *)
(* first checks that the caller is a member of the project named in the    *)
(* URL (get_project_member), then hands the scenario id to the service,    *)
(* which finds the scenario by its id alone.                               *)
(***************************************************************************)
\* The project_members rows: each project's creator is its owner.
ProjectMembers == { << "A", "u1" >>, << "B", "u2" >> }

Projects == { m[1] : m \in ProjectMembers }

\* A float column that holds NULL.
NoFloat == [ neg |-> FALSE, mag |-> << -1 >> ]

\* The request a scenario handler serves.
ScenarioRequest(op, project_id, scenario_id, user_id) ==
    [ op |-> op, project_id |-> project_id, scenario_id |-> scenario_id,
      user_id |-> user_id ]

\* What it returned: the HTTP status and the body (the detail on an error).
Reply(code, body) == [ code |-> code, body |-> body ]

\* get_project_member found a project_members row
IsMember(project_id, user_id) == << project_id, user_id >> \in ProjectMembers

NotAMember == Reply(403, "Not a member of this project")

\* The projections and averted totals of a forecast that has none (all NULL).
NoProjection == [ populated |-> FALSE ]

\* The projections and averted totals _simple_forecast computes, as the
\* inputs that determine them: the scenario's assignment, the baseline and
\* the number of years.
Projection(interventions, baseline_cases, years) ==
    [ populated |-> TRUE, interventions |-> interventions,
      baseline_cases |-> baseline_cases, years |-> years ]

\* InterventionScenario(project_id=..., interventions=..., created_by=...)
NewScenario(project_id, interventions, user_id) ==
    [ project_id |-> project_id, interventions |-> interventions,
      total_cost |-> NoFloat, population_covered |-> -1,
      estimated_averted |-> NoProjection,
      created_by |-> user_id, deleted |-> FALSE ]

\* select(InterventionScenario).where(InterventionScenario.id == scenario_id)
\* found a row
ScenarioFound(rows, scenario_id) ==
    scenario_id \in DOMAIN rows /\ ~rows[scenario_id].deleted

\* The rows of a table that belong to the scenario, in table order.
OfScenario(rows, scenario_id) ==
    LET mine(r) == r.scenario_id = scenario_id
    IN  SelectSeq(rows, mine)

\* The rows of a table that belong to other scenarios.
NotOfScenario(rows, scenario_id) ==
    LET other(r) == r.scenario_id # scenario_id
    IN  SelectSeq(rows, other)

ScenarioFrame ==
    UNCHANGED << wf, dataSources, configs, results, riskVars, fcVars, graphVars,
                 txVars >>

MaxScenarios == 2

\* POST /projects/{project_id}/scenarios
CreateScenario(project_id, user_id, interventions) ==
    /\ Len(scenarios) < MaxScenarios
    /\ request' = ScenarioRequest("create_scenario", project_id, 0, user_id)
    /\ IF ~IsMember(project_id, user_id)
       THEN /\ response' = NotAMember
            /\ UNCHANGED scnVars
       ELSE /\ scenarios' = Append(scenarios,
                                   NewScenario(project_id, interventions, user_id))
            /\ response' = Reply(201, Len(scenarios) + 1)
            /\ UNCHANGED << costItems, forecasts >>

\* GET /projects/{project_id}/scenarios/{scenario_id}
GetScenario(project_id, scenario_id, user_id) ==
    /\ request' = ScenarioRequest("get_scenario", project_id, scenario_id, user_id)
    /\ response' =
         IF ~IsMember(project_id, user_id) THEN NotAMember
         ELSE IF ~ScenarioFound(scenarios, scenario_id)
         THEN Reply(404, "Scenario not found")
         ELSE Reply(200, [ scenario |-> scenarios[scenario_id],
                           cost_items |-> OfScenario(costItems, scenario_id) ])
    /\ UNCHANGED scnVars

\* Mutant of update_scenario: the cost items of the scenario are dropped
\* with the old assignment.
update_scenario_DropsItems(rows, items, scenario_id, interventions) ==
    [ scenarios |-> [ rows EXCEPT ![scenario_id].interventions = interventions ],
      costItems |-> NotOfScenario(items, scenario_id) ]

\* CostingService.update_scenario with data.interventions set
update_scenario(rows, items, scenario_id, interventions) ==
    [ scenarios |-> [ rows EXCEPT ![scenario_id].interventions = interventions ],
      costItems |-> items ]

\* PATCH /projects/{project_id}/scenarios/{scenario_id}
UpdateScenario(project_id, scenario_id, user_id, interventions) ==
    /\ request' = ScenarioRequest("update_scenario", project_id, scenario_id,
                                  user_id)
    /\ IF ~IsMember(project_id, user_id)
       THEN /\ response' = NotAMember
            /\ UNCHANGED scnVars
       ELSE IF ~ScenarioFound(scenarios, scenario_id)
       THEN /\ response' = Reply(404, "Scenario not found")
            /\ UNCHANGED scnVars
       ELSE LET after == update_scenario(scenarios, costItems, scenario_id,
                                         interventions)
            IN  /\ scenarios' = after.scenarios
                /\ costItems' = after.costItems
                /\ response' = Reply(200, after.scenarios[scenario_id])
                /\ UNCHANGED forecasts

\* DELETE /projects/{project_id}/scenarios/{scenario_id}: the row goes, and
\* with it its cost items and forecasts (cascade="all, delete-orphan").
DeleteScenario(project_id, scenario_id, user_id) ==
    /\ request' = ScenarioRequest("delete_scenario", project_id, scenario_id,
                                  user_id)
    /\ IF ~IsMember(project_id, user_id)
       THEN /\ response' = NotAMember
            /\ UNCHANGED scnVars
       ELSE IF ~ScenarioFound(scenarios, scenario_id)
       THEN /\ response' = Reply(404, "Scenario not found")
            /\ UNCHANGED scnVars
       ELSE /\ scenarios' = [ scenarios EXCEPT ![scenario_id].deleted = TRUE ]
            /\ costItems' = NotOfScenario(costItems, scenario_id)
            /\ forecasts' = NotOfScenario(forecasts, scenario_id)
            /\ response' = Reply(204, None)

(***************************************************************************)
(* SpecTenant: two projects, A with member u1 and B with member u2, and    *)
(* the scenario endpoints called by either user under either project's     *)
(* URL with any scenario id.                                               *)
(***************************************************************************)
TenantUsers == { m[2] : m \in ProjectMembers }

\* interventions: the admin units in key order, each with its codes
TenantPlans ==
    { << << "D1", << "itn" >> >> >>, << << "D1", << "irs" >> >> >> }

ScenarioIds == 1..MaxScenarios

InitTenant ==
    /\ NoProject
    /\ HarnessIdle

NextTenant ==
    \/ \E project_id \in Projects, user_id \in TenantUsers,
          interventions \in TenantPlans :
          CreateScenario(project_id, user_id, interventions) /\ ScenarioFrame
    \/ \E project_id \in Projects, user_id \in TenantUsers,
          scenario_id \in ScenarioIds :
          GetScenario(project_id, scenario_id, user_id) /\ ScenarioFrame
    \/ \E project_id \in Projects, user_id \in TenantUsers,
          scenario_id \in ScenarioIds, interventions \in TenantPlans :
          UpdateScenario(project_id, scenario_id, user_id, interventions)
          /\ ScenarioFrame
    \/ \E project_id \in Projects, user_id \in TenantUsers,
          scenario_id \in ScenarioIds :
          DeleteScenario(project_id, scenario_id, user_id) /\ ScenarioFrame

SpecTenant == InitTenant /\ [][NextTenant]_vars

\* The operations that read or change one scenario named by its id.
ByScenarioId == { "get_scenario", "update_scenario", "delete_scenario" }

\* C11: membership safety.  Whenever an operation on a scenario succeeds,
\* the caller is a member of the project that owns the scenario.
C11_MembershipSafety ==
    [][ ( /\ request'.op \in ByScenarioId
          /\ response'.code \in { 200, 204 } )
        => IsMember(scenarios[request'.scenario_id].project_id,
                    request'.user_id) ]_vars

(***************************************************************************)
(* SpecStrat: a project with two stratification configs of different       *)
(* thresholds, recalculated in any order from any of the row lists.        *)
(***************************************************************************)
\* very_low [0,5), low [5,10), moderate [10,50), high [50,100)
OtherThresholds ==
    ( "very_low" :> [ min_value |-> 0, max_value |-> 5 ] ) @@
    ( "low" :> [ min_value |-> 5, max_value |-> 10 ] ) @@
    ( "moderate" :> [ min_value |-> 10, max_value |-> 50 ] ) @@
    ( "high" :> [ min_value |-> 50, max_value |-> 100 ] )

StratConfigs ==
    << [ name |-> "c1", thresholds |-> DefaultThresholds, is_active |-> TRUE ],
       [ name |-> "c2", thresholds |-> OtherThresholds, is_active |-> TRUE ] >>

StratConfigIds == DOMAIN StratConfigs

StratMetricValues == { 0, 2, 5, 40 }

\* The request bodies: no row, one row, two rows.
StratItemLists ==
    { << >> }
    \cup { << [ admin_unit_name |-> "A", metric_value |-> a ] >> :
             a \in StratMetricValues }
    \cup { << [ admin_unit_name |-> "A", metric_value |-> a ],
              [ admin_unit_name |-> "B", metric_value |-> b ] >> :
             a \in { 0, 5 }, b \in { 5, 40 } }

InitStrat ==
    /\ wf = [ s \in WorkflowStep |-> NewWorkflowState ]
    /\ dataSources = << >>
    /\ configs = StratConfigs
    /\ results = << >>
    /\ request = Request("create_config", None, None, None)
    /\ response = Response(201, << >>, NoVerdict, NoState)
    /\ scenarios = << >>
    /\ costItems = << >>
    /\ forecasts = << >>
    /\ sessions = NoSessions
    /\ HarnessIdle

NextStrat ==
    \/ \E config_id \in StratConfigIds, is_active \in BOOLEAN :
          UpdateConfig(config_id, is_active) /\ Idle
    \/ \E config_id \in StratConfigIds, items \in StratItemLists :
          CalculateStratification(config_id, items) /\ Idle

SpecStrat == InitStrat /\ [][NextStrat]_vars

\* The stored results of one config, in storage order.
ResultsOf(rs, config_id) ==
    LET mine(r) == r.config_id = config_id
    IN  SelectSeq(rs, mine)

\* One stored row is the row derived from one input item.
DerivedFrom(row, config_id, item) ==
    /\ row.config_id = config_id
    /\ row.admin_unit_name = item.admin_unit_name
    /\ row.metric_value = item.metric_value
    /\ row.risk_level = _assign_risk_level(item.metric_value,
                                           configs[config_id].thresholds)
    /\ row.eligible_interventions =
           _determine_eligible_interventions(row.risk_level)

Range(seq) == { seq[i] : i \in DOMAIN seq }

\* C12: calculate_stratification is a wholesale replace and is idempotent.
\* After calculate(config, rows) the config's stored results are exactly one
\* row per input row, each derived from that row's metric value and the
\* config's thresholds; nothing of an earlier calculation of the config
\* remains; the results of the other configs are unchanged; and a call that
\* repeats the one that produced the stored results leaves the same result
\* set.
C12_WholesaleReplace ==
    [][ \A config_id \in StratConfigIds, items \in StratItemLists :
          CalculateStratification(config_id, items) =>
            LET mine == ResultsOf(results', config_id)
            IN  /\ Len(mine) = Len(items)
                /\ \A i \in DOMAIN items :
                      DerivedFrom(mine[i], config_id, items[i])
                /\ \A other \in StratConfigIds \ { config_id } :
                      ResultsOf(results', other) = ResultsOf(results, other)
                /\ ( /\ Len(ResultsOf(results, config_id)) = Len(items)
                     /\ \A i \in DOMAIN items :
                           DerivedFrom(ResultsOf(results, config_id)[i],
                                       config_id, items[i]) )
                   => Range(results') = Range(results) ]_vars

\* Config 1 was recalculated from two rows after it held a result and while
\* config 2 held one: only the two fresh rows of config 1 are stored, after
\* the row of config 2.
C12_Witness ==
    /\ request.op = "calculate_stratification"
    /\ Len(results) = 3
    /\ results[1].config_id = 2
    /\ results[1].risk_level = "very_low"
    /\ results[2].config_id = 1
    /\ results[2].metric_value = 0
    /\ results[3].config_id = 1
    /\ results[3].risk_level = "high"

(***************************************************************************)
(* SpecPatch: the first step, which has its own validator, and a step      *)
(* with the generic validator, under every patch shape.                    *)
(***************************************************************************)
GENERIC == "impact_forecasting"

PatchSteps == { PLANNING, GENERIC }

PatchInputs ==
    { << PLANNING, StepUpdateRequest(notes, completion_percentage, data) >> :
         notes \in { None, "note" }, completion_percentage \in { -1, 50 },
         data \in { NoData, { "scope_of_work", "operational_unit" } } }
    \cup { << GENERIC, StepUpdateRequest(None, completion_percentage, NoData) >> :
              completion_percentage \in { -1, 100 } }

NextPatch ==
    \/ CreateProject /\ Idle
    \/ \E in \in PatchInputs : UpdateStep(in[1], in[2]) /\ Idle
    \/ \E step \in PatchSteps : ValidateStep(step) /\ Idle
    \/ CompleteStep(PLANNING, "u1", "t1") /\ Idle
    \/ ReopenStep(PLANNING) /\ Idle

SpecPatch == Init /\ [][NextPatch]_vars

\* C16: update_step applies only the fields present in the patch, leaving
\* absent fields and all other steps unchanged; it changes the status only
\* from not_started to in_progress; it stores no validation snapshot and
\* never touches completed_at or completed_by.
C16_UpdateStepFrame ==
    [][ \A in \in PatchInputs :
          UpdateStep(in[1], in[2]) =>
            LET step == in[1]
                patch == in[2]
                old == wf[step]
                new == wf'[step]
            IN  /\ new.notes = IF patch.notes = None THEN old.notes
                                ELSE patch.notes
                /\ new.completion_percentage =
                       IF patch.completion_percentage = -1
                       THEN old.completion_percentage
                       ELSE patch.completion_percentage
                /\ new.data = IF patch.data = NoData THEN old.data
                               ELSE patch.data
                /\ new.status = IF old.status = NOT_STARTED THEN IN_PROGRESS
                                 ELSE old.status
                /\ new.validation_errors = old.validation_errors
                /\ new.completed_at = old.completed_at
                /\ new.completed_by = old.completed_by
                /\ \A s \in WorkflowStep \ { step } : wf'[s] = wf[s] ]_vars

\* A completed step was patched with a completion percentage only: it is
\* still completed, by the same user at the same time, with its notes, data
\* and validation snapshot, and now 50 percent.
C16_Witness ==
    /\ request.op = "update_step"
    /\ request.step = PLANNING
    /\ wf[PLANNING].status = COMPLETED
    /\ wf[PLANNING].completion_percentage = 50
    /\ wf[PLANNING].completed_by = "u1"
    /\ wf[PLANNING].notes = None
    /\ wf[PLANNING].validation_errors.stored

\* C17: validate_step runs the validator registered for the step, stores
\* exactly the errors and warnings it computed as the step's validation
\* snapshot and returns is_valid = (no errors), whatever the warnings; it
\* changes no status, completion percentage, completion metadata, notes or
\* data of any step.  A step with the generic validator is always valid, with
\* a warning exactly when its completion is below 100.
C17_ValidateStep ==
    [][ request'.op = "validate_step" =>
          LET step == request'.step
          IN  /\ wf'[step].validation_errors =
                     Snapshot(response'.errors, response'.warnings)
              /\ response'.is_valid = (response'.errors = << >>)
              /\ step = PLANNING =>
                    /\ response'.errors = _validate_planning(wf, step).errors
                    /\ response'.warnings =
                           _validate_planning(wf, step).warnings
              /\ step = GENERIC =>
                    /\ response'.is_valid
                    /\ (response'.warnings # << >>)
                           = (wf[step].completion_percentage < 100)
              /\ wf' = [ wf EXCEPT ![step].validation_errors =
                                       wf'[step].validation_errors ] ]_vars

\* The first step was validated with its scope and unit documented and no
\* timeline: valid, with a warning, and still in progress.
C17_Witness ==
    /\ request.op = "validate_step"
    /\ request.step = PLANNING
    /\ response.is_valid
    /\ Len(response.warnings) = 1
    /\ wf[PLANNING].status = IN_PROGRESS
    /\ wf[PLANNING].validation_errors.warnings = response.warnings

(***************************************************************************)
(* The stored statuses, under Spec                                         *)
(***************************************************************************)
\* C18: in every state reached by create-project, update_step,
\* validate_step, complete_step and reopen_step calls the stored status of
\* every step is not_started, in_progress or completed, never blocked; and a
\* step that is not accessible is reported with its stored status and
\* is_accessible = false.
C18_NoBlockedStatus ==
    /\ \A s \in DOMAIN wf :
          wf[s].status \in { NOT_STARTED, IN_PROGRESS, COMPLETED }
    /\ request.op = "get_workflow" =>
          \A i \in DOMAIN response.state.steps :
             LET r == response.state.steps[i]
             IN  /\ r.status = wf[r.step].status
                 /\ r.is_accessible =
                        (\A p \in PrerequisitesOf(r.step, BLOCKING) :
                            wf[p].status = COMPLETED)

\* Data assembly was updated before planning was completed: the workflow
\* reports it in progress and not accessible.
C18_Witness ==
    /\ request.op = "get_workflow"
    /\ wf[PLANNING].status = IN_PROGRESS
    /\ \E i \in DOMAIN response.state.steps :
          /\ response.state.steps[i].step = "data_assembly"
          /\ response.state.steps[i].status = IN_PROGRESS
          /\ ~response.state.steps[i].is_accessible

(***************************************************************************)
(* Requests in flight.  get_db gives every request its own session and     *)
(* transaction: the handler's statements run inside it, the transaction    *)
(* commits when the handler returns and rolls back when it raises.  The    *)
(* statements of two requests interleave at every await.  results holds    *)
(* the committed rows; what a session has deleted or inserted and not yet  *)
(* committed is in sessions.  The database runs the transactions at its    *)
(* default isolation (read committed): a DELETE removes the rows that were *)
(* committed when it began and waits for a transaction that has already    *)
(* deleted one of them.                                                    *)
(***************************************************************************)
\* The rows of rs at the positions outside gone, in order.
RECURSIVE KeepFrom(_, _, _)
KeepFrom(rs, gone, i) ==
    IF i > Len(rs) THEN << >>
    ELSE (IF i \in gone THEN << >> ELSE << rs[i] >>) \o KeepFrom(rs, gone, i + 1)

\* session.commit(): the deleted rows go, the inserted rows are stored.
commit(rs, session) == KeepFrom(rs, session.deleted, 1) \o session.pending

\* Mutant of rollback: what the failed request did is kept.
rollback_KeepsWork(rs, session) ==
    KeepFrom(rs, session.deleted, 1) \o session.pending

\* session.rollback(): nothing the request did is stored.
rollback(rs, session) == rs

\* The positions a set of row positions has once the rows at gone are removed.
Remap(positions, gone) ==
    { p - Cardinality({ d \in gone : d < p }) : p \in positions \ gone }

\* The sessions once session s has ended and its deletions have taken effect.
AfterEnd(s, gone) ==
    [ o \in SessionIds |->
        IF o = s THEN NoSession
        ELSE [ sessions[o] EXCEPT !.snapshot = Remap(@, gone),
                                  !.deleted = Remap(@, gone) ] ]

\* The request reaches calculate_stratification and finds its config.
BeginCalculate(s, config_id, items) ==
    /\ sessions[s].pc = "idle"
    /\ config_id \in DOMAIN configs
    /\ sessions' = [ sessions EXCEPT ![s] =
                       [ NoSession EXCEPT !.pc = "selected",
                                          !.config_id = config_id,
                                          !.items = items ] ]
    /\ UNCHANGED << wfVars, scnVars >>

\* delete(StratificationResult).where(config_id == ...) begins: it sees the
\* committed rows of the config.
DeleteBegin(s) ==
    /\ sessions[s].pc = "selected"
    /\ sessions' = [ sessions EXCEPT
                       ![s].pc = "deleting",
                       ![s].snapshot =
                           { i \in DOMAIN results :
                               results[i].config_id = sessions[s].config_id } ]
    /\ UNCHANGED << wfVars, scnVars >>

\* The delete ends once no other transaction holds a row it saw; the rows
\* it saw that are still stored are deleted in this transaction.
DeleteEnd(s) ==
    /\ sessions[s].pc = "deleting"
    /\ \A o \in SessionIds \ { s } :
          sessions[o].deleted \cap sessions[s].snapshot = {}
    /\ sessions' = [ sessions EXCEPT ![s].pc = "deleted",
                                     ![s].deleted = sessions[s].snapshot ]
    /\ UNCHANGED << wfVars, scnVars >>

\* The first item without a metric_value, or 0.
FirstBadItem(items) ==
    IF \A i \in DOMAIN items : "metric_value" \in DOMAIN items[i] THEN 0
    ELSE CHOOSE i \in DOMAIN items :
            /\ "metric_value" \notin DOMAIN items[i]
            /\ \A j \in 1..(i - 1) : "metric_value" \in DOMAIN items[j]

\* The loop over the items: each item's row is added to the session;
\* item["metric_value"] raises KeyError on an item without one.  After the
\* loop the rows are flushed.
BuildRows(s) ==
    /\ sessions[s].pc = "deleted"
    /\ LET items == sessions[s].items
           config_id == sessions[s].config_id
           bad == FirstBadItem(items)
       IN  sessions' = [ sessions EXCEPT
              ![s].pc = IF bad = 0 THEN "flushed" ELSE "raised",
              ![s].pending =
                  SeqMapResults(config_id, configs[config_id].thresholds,
                                SubSeq(items, 1,
                                       IF bad = 0 THEN Len(items)
                                       ELSE bad - 1)) ]
    /\ UNCHANGED << wfVars, scnVars >>

\* The handler returns the rows and get_db commits.
Commit(s) ==
    /\ sessions[s].pc = "flushed"
    /\ results' = commit(results, sessions[s])
    /\ sessions' = AfterEnd(s, sessions[s].deleted)
    /\ request' = Request("calculate_stratification", None, None, None)
    /\ response' = Reply(200, sessions[s].pending)
    /\ UNCHANGED << wf, dataSources, configs, scnVars >>

\* The KeyError leaves the handler, which catches ValueError only; get_db
\* rolls back and the caller gets a server error.
Rollback(s) ==
    /\ sessions[s].pc = "raised"
    /\ results' = rollback(results, sessions[s])
    /\ sessions' = AfterEnd(s, {})
    /\ request' = Request("calculate_stratification", None, None, None)
    /\ response' = Reply(500, "Internal Server Error")
    /\ UNCHANGED << wf, dataSources, configs, scnVars >>

TxFrame == UNCHANGED << riskVars, fcVars, graphVars >>

(***************************************************************************)
(* SpecTx: two requests at a time recalculate the first config.            *)
(***************************************************************************)
\* The request bodies: one row, another row, a row followed by a row
\* without metric_value.
TxItemLists ==
    { << [ admin_unit_name |-> "A", metric_value |-> 5 ] >>,
      << [ admin_unit_name |-> "A", metric_value |-> 40 ] >>,
      << [ admin_unit_name |-> "A", metric_value |-> 0 ],
         [ admin_unit_name |-> "B" ] >> }

NextTx ==
    \/ \E s \in SessionIds, items \in TxItemLists :
          BeginCalculate(s, 1, items) /\ TxFrame
    \/ \E s \in SessionIds : DeleteBegin(s) /\ TxFrame
    \/ \E s \in SessionIds : DeleteEnd(s) /\ TxFrame
    \/ \E s \in SessionIds : BuildRows(s) /\ TxFrame
    \/ \E s \in SessionIds : Commit(s) /\ TxFrame
    \/ \E s \in SessionIds : Rollback(s) /\ TxFrame

SpecTx == InitStrat /\ [][NextTx]_vars

\* C19: when two recalculations of one config interleave, the outcome is
\* last-write-wins: once a request has committed, the stored results of the
\* config are the rows of that request or the rows of the request that
\* completed before it, never a mixture or union of both.
C19_LastWriteWins ==
    [][ \A s \in SessionIds :
          Commit(s) =>
            LET stored == ResultsOf(results', sessions[s].config_id)
            IN  \/ stored = sessions[s].pending
                \/ /\ request.op = "calculate_stratification"
                   /\ response.code = 200
                   /\ stored = response.body ]_vars

\* C20 as stated: a recalculation that fails after its delete and some of
\* its inserts leaves the previous results gone and only the prefix of the
\* new results stored.
C20_OrphanedState ==
    [][ \A s \in SessionIds :
          Rollback(s) =>
            ResultsOf(results', sessions[s].config_id) = sessions[s].pending
      ]_vars

\* C20 amended: a recalculation that fails partway through its
\* delete-then-insert stores nothing: the request's transaction is rolled
\* back, the results stored before its end are the results stored after it,
\* and the caller gets a server error.  Only a request that commits changes
\* the stored results.
C20_FailureRollsBack ==
    [][ /\ \A s \in SessionIds :
              Rollback(s) =>
                /\ results' = results
                /\ response'.code = 500
                /\ sessions'[s] = NoSession
        /\ (\A s \in SessionIds : ~Commit(s)) => results' = results ]_vars

\* A request whose second row lacks metric_value ended with a server error
\* after its delete and its first insert, and the rows stored before it are
\* still stored.
C20_Witness ==
    /\ request.op = "calculate_stratification"
    /\ response.code = 500
    /\ Len(results) = 1
    /\ results[1].metric_value = 40
    /\ \A s \in SessionIds : sessions[s].pc = "idle"

(***************************************************************************)
(* Forecasts (api/v1/forecasts.py, forecast_service.py)                    *)
(***************************************************************************)
MaxForecasts == 3

\* created_at of a new row: the time of its creation, later than that of
\* every row created before it.
created_at(rows) == Len(rows) + 1

\* cases_averted and deaths_averted of a forecast that has none (NULL); a
\* count that was computed is never negative.
NoCount == -1

\* data.get(key, default)
Get(data, key, default) == IF key \in DOMAIN data THEN data[key] ELSE default

\* forecast_data of run_forecast
ForecastData(scenario, model_type, baseline_data, years) ==
    IF model_type = "simple"
    THEN _simple_forecast(scenario.interventions,
                          Get(baseline_data, "baseline_cases", 100000),
                          Get(baseline_data, "baseline_deaths", 500), years)
    ELSE [ cases_averted |-> NoCount, deaths_averted |-> NoCount,
           dalys_averted |-> NoFloat ]

\* cost_per_case, cost_per_death and cost_per_daly of run_forecast
CostEffectiveness(total_cost, forecast_data) ==
    IF /\ total_cost # NoFloat /\ total_cost # SZero
       /\ forecast_data.cases_averted # NoCount
       /\ forecast_data.cases_averted # 0
    THEN [ cost_per_case |->
               IF forecast_data.cases_averted > 0
               THEN SDiv(total_cost, SFromInt(forecast_data.cases_averted))
               ELSE NoFloat,
           cost_per_death |->
               IF forecast_data.deaths_averted > 0
               THEN SDiv(total_cost, SFromInt(forecast_data.deaths_averted))
               ELSE NoFloat,
           cost_per_daly |->
               IF SLess(SZero, forecast_data.dalys_averted)
               THEN SDiv(total_cost, forecast_data.dalys_averted)
               ELSE NoFloat ]
    ELSE [ cost_per_case |-> NoFloat, cost_per_death |-> NoFloat,
           cost_per_daly |-> NoFloat ]

\* The ForecastResult run_forecast builds.
NewForecast(scenario_id, scenario, model_type, baseline_data, years, now) ==
    CHOOSE forecast \in
      { [ scenario_id |-> scenario_id,
          created_at |-> now,
          status |-> IF model_type = "simple" THEN "completed" ELSE "pending",
          model_type |-> model_type,
          projected |-> IF model_type = "simple"
                        THEN Projection(scenario.interventions,
                                        Get(baseline_data, "baseline_cases",
                                            100000),
                                        years)
                        ELSE NoProjection,
          cases_averted |-> forecast_data.cases_averted,
          deaths_averted |-> forecast_data.deaths_averted,
          dalys_averted |-> forecast_data.dalys_averted,
          cost_per_case_averted |-> ratios.cost_per_case,
          cost_per_death_averted |-> ratios.cost_per_death,
          cost_per_daly_averted |-> ratios.cost_per_daly,
          parameters |-> [ baseline |-> baseline_data,
                           model_type |-> model_type,
                           projection_years |-> years ] ] :
          << forecast_data, ratios >> \in
            { << data, CostEffectiveness(scenario.total_cost, data) >> :
                data \in { ForecastData(scenario, model_type, baseline_data,
                                        years) } } } : TRUE

\* The body of POST .../run beside the path parameters.
ForecastRequest(project_id, scenario_id, user_id, model_type, baseline_data, years) ==
    [ op |-> "run_forecast", project_id |-> project_id,
      scenario_id |-> scenario_id, user_id |-> user_id,
      model_type |-> model_type, baseline_data |-> baseline_data,
      projection_years |-> years ]

\* POST /projects/{project_id}/forecasts/scenarios/{scenario_id}/run
RunForecast(project_id, scenario_id, user_id, model_type, baseline_data, years) ==
    /\ Len(forecasts) < MaxForecasts
    /\ request' = ForecastRequest(project_id, scenario_id, user_id, model_type,
                                  baseline_data, years)
    /\ IF ~IsMember(project_id, user_id)
       THEN /\ response' = NotAMember
            /\ UNCHANGED scnVars
       ELSE IF ~ScenarioFound(scenarios, scenario_id)
       THEN /\ response' = Reply(400, "Scenario not found")
            /\ UNCHANGED scnVars
       ELSE \E forecast \in { NewForecast(scenario_id, scenarios[scenario_id],
                                          model_type, baseline_data, years,
                                          created_at(forecasts)) } :
               /\ forecasts' = Append(forecasts, forecast)
               /\ scenarios' = [ scenarios EXCEPT
                                   ![scenario_id].estimated_averted =
                                       forecast.projected ]
               /\ response' = Reply(201, forecast)
               /\ UNCHANGED costItems

\* Mutant of LatestCompleted: the latest forecast of the scenario, whatever
\* its status.
LatestCompleted_AnyStatus(rows, scenario_id) ==
    LET mine == { i \in DOMAIN rows : rows[i].scenario_id = scenario_id }
    IN  IF mine = {} THEN 0
        ELSE CHOOSE i \in mine :
                \A j \in mine : rows[j].created_at <= rows[i].created_at

\* select(ForecastResult).where(scenario_id == ..., status == "completed")
\* .order_by(created_at.desc()).limit(1): the position of the row, or 0.
LatestCompleted(rows, scenario_id) ==
    LET mine == { i \in DOMAIN rows : /\ rows[i].scenario_id = scenario_id
                                      /\ rows[i].status = "completed" }
    IN  IF mine = {} THEN 0
        ELSE CHOOSE i \in mine :
                \A j \in mine : rows[j].created_at <= rows[i].created_at

\* The ForecastSummaryResponse of one scenario.
ForecastSummary(scenario_id, rows) ==
    LET i == LatestCompleted(rows, scenario_id)
    IN  [ scenario_id |-> scenario_id,
          baseline_cases |-> IF i = 0 THEN 0
                             ELSE Get(rows[i].parameters.baseline,
                                      "baseline_cases", 0),
          averted |-> IF i = 0 THEN NoProjection ELSE rows[i].projected,
          total_cases_averted |->
              IF i = 0 THEN NoCount ELSE rows[i].cases_averted,
          total_deaths_averted |->
              IF i = 0 THEN NoCount ELSE rows[i].deaths_averted,
          cost_effectiveness |->
              [ cost_per_case_averted |->
                    IF i = 0 THEN NoFloat ELSE rows[i].cost_per_case_averted,
                cost_per_death_averted |->
                    IF i = 0 THEN NoFloat
                    ELSE rows[i].cost_per_death_averted ] ]

\* The loop of compare_forecasts over the project's scenarios from id i on.
RECURSIVE SummariesFrom(_, _)
SummariesFrom(project_id, i) ==
    IF i > Len(scenarios) THEN << >>
    ELSE (IF ~scenarios[i].deleted /\ scenarios[i].project_id = project_id
          THEN << ForecastSummary(i, forecasts) >> ELSE << >>)
         \o SummariesFrom(project_id, i + 1)

\* best_cases_id, best_cases_count, best_ce_id and best_ce_ratio before the
\* loop; id 0 is None, and best_ce_ratio is float("inf") as long as
\* best_ce_id is None.
NoBest ==
    [ best_cases_id |-> 0, best_cases_count |-> 0,
      best_ce_id |-> 0, best_ce_ratio |-> NoFloat ]

\* Mutant of TrackBest: a scenario that ties with the best takes its place.
TrackBest_LastSeen(best, summary) ==
    LET cases_averted == summary.total_cases_averted
        ratio == summary.cost_effectiveness.cost_per_case_averted
        by_cases == cases_averted # NoCount /\ cases_averted # 0
                    /\ cases_averted >= best.best_cases_count
        by_ce == /\ ratio # NoFloat /\ ratio # SZero
                 /\ (best.best_ce_id = 0 \/ SLessEq(ratio, best.best_ce_ratio))
    IN  [ best_cases_id |-> IF by_cases THEN summary.scenario_id
                            ELSE best.best_cases_id,
          best_cases_count |-> IF by_cases THEN cases_averted
                               ELSE best.best_cases_count,
          best_ce_id |-> IF by_ce THEN summary.scenario_id ELSE best.best_ce_id,
          best_ce_ratio |-> IF by_ce THEN ratio ELSE best.best_ce_ratio ]

\* "Track best": one pass of the loop of compare_forecasts
TrackBest(best, summary) ==
    LET cases_averted == summary.total_cases_averted
        ratio == summary.cost_effectiveness.cost_per_case_averted
        by_cases == cases_averted # NoCount /\ cases_averted # 0
                    /\ cases_averted > best.best_cases_count
        by_ce == /\ ratio # NoFloat /\ ratio # SZero
                 /\ (best.best_ce_id = 0 \/ SLess(ratio, best.best_ce_ratio))
    IN  [ best_cases_id |-> IF by_cases THEN summary.scenario_id
                            ELSE best.best_cases_id,
          best_cases_count |-> IF by_cases THEN cases_averted
                               ELSE best.best_cases_count,
          best_ce_id |-> IF by_ce THEN summary.scenario_id ELSE best.best_ce_id,
          best_ce_ratio |-> IF by_ce THEN ratio ELSE best.best_ce_ratio ]

RECURSIVE BestFrom(_, _, _)
BestFrom(summaries, i, best) ==
    IF i > Len(summaries) THEN best
    ELSE BestFrom(summaries, i + 1, TrackBest(best, summaries[i]))

\* The ForecastComparisonResponse
ForecastComparison(summaries) ==
    LET best == BestFrom(summaries, 1, NoBest)
    IN  [ scenarios |-> summaries,
          best_by_cases_averted |-> best.best_cases_id,
          best_by_cost_effectiveness |-> best.best_ce_id ]

\* GET /projects/{project_id}/forecasts/compare
CompareForecasts(project_id, user_id) ==
    /\ request' = ScenarioRequest("compare_forecasts", project_id, 0, user_id)
    /\ response' = IF ~IsMember(project_id, user_id) THEN NotAMember
                   ELSE Reply(200, ForecastComparison(
                                       SummariesFrom(project_id, 1)))
    /\ UNCHANGED scnVars

(***************************************************************************)
(* SpecHistory: the scenarios of a project and their forecast runs.        *)
(***************************************************************************)
ModelTypes == { "simple", "openmalaria" }

BaselineCases == { 1000, 2000 }

NextHistory ==
    \/ CreateScenario("A", "u1", << << "D1", << "itn" >> >> >>) /\ ScenarioFrame
    \/ \E scenario_id \in ScenarioIds, model_type \in ModelTypes,
          baseline_cases \in BaselineCases :
          RunForecast("A", scenario_id, "u1", model_type,
                      [ baseline_cases |-> baseline_cases ], 5)
          /\ ScenarioFrame
    \/ CompareForecasts("A", "u1") /\ ScenarioFrame

SpecHistory == InitTenant /\ [][NextHistory]_vars

\* The forecasts of rows before position n, unchanged in the longer list.
IsPrefix(old, new) ==
    /\ Len(old) <= Len(new)
    /\ \A i \in DOMAIN old : new[i] = old[i]

\* C15: forecast results are append-only per scenario.  Every run_forecast
\* on an existing scenario adds exactly one ForecastResult and changes or
\* removes none of the earlier ones; a model type other than "simple" adds a
\* pending record with no projections; and the forecast compare_forecasts
\* reports for a scenario is its most recently created completed record.
C15_ForecastsAppendOnly ==
    [][ /\ ( request'.op = "run_forecast" /\ response'.code = 201 ) =>
              /\ Len(forecasts') = Len(forecasts) + 1
              /\ IsPrefix(forecasts, forecasts')
              /\ LET new == forecasts'[Len(forecasts')]
                 IN  /\ new.scenario_id = request'.scenario_id
                     /\ \A i \in DOMAIN forecasts :
                           forecasts[i].created_at < new.created_at
                     /\ new.model_type # "simple" =>
                           /\ new.status = "pending"
                           /\ ~new.projected.populated
                     /\ new.model_type = "simple" =>
                           /\ new.status = "completed"
                           /\ new.projected.populated
        /\ ( request'.op = "compare_forecasts" /\ response'.code = 200 ) =>
              \A k \in DOMAIN response'.body.scenarios :
                 LET summary == response'.body.scenarios[k]
                     completed ==
                       { i \in DOMAIN forecasts :
                           /\ forecasts[i].scenario_id = summary.scenario_id
                           /\ forecasts[i].status = "completed" }
                 IN  IF completed = {}
                     THEN ~summary.averted.populated
                     ELSE \E i \in completed :
                            /\ \A j \in completed \ { i } :
                                  forecasts[j].created_at
                                      < forecasts[i].created_at
                            /\ summary.baseline_cases =
                                   forecasts[i].parameters.baseline.baseline_cases
                            /\ summary.averted = forecasts[i].projected
      ]_vars

\* A scenario was forecast with the simple model from 1000 baseline cases,
\* then from 2000, then with an external model: the comparison reports the
\* second run.
C15_Witness ==
    /\ request.op = "compare_forecasts"
    /\ Len(forecasts) = 3
    /\ \A i \in 1..3 : forecasts[i].scenario_id = 1
    /\ forecasts[1].parameters.baseline.baseline_cases = 1000
    /\ forecasts[2].status = "completed"
    /\ forecasts[2].parameters.baseline.baseline_cases = 2000
    /\ forecasts[3].status = "pending"
    /\ response.body.scenarios[1].baseline_cases = 2000

(***************************************************************************)
(* Costing engine (costing_service.py)                                     *)
(***************************************************************************)
\* The float entries of DEFAULT_UNIT_COSTS, as decimal literals p/q.
DEFAULT_UNIT_COSTS ==
    [ itn |-> [ procurement |-> << 25, 10 >>, distribution |-> << 15, 10 >>,
                bcc_annual |-> << 1, 10 >>, nets_per_capita |-> << 5, 10 >> ],
      irs |-> [ insecticide_per_structure |-> << 5, 1 >>,
                operations_per_structure |-> << 35, 10 >>,
                mobilization_per_capita |-> << 2, 10 >> ],
      smc |-> [ drugs_per_child_per_cycle |-> << 5, 10 >>,
                delivery_per_child_per_cycle |-> << 8, 10 >>,
                under5_proportion |-> << 18, 100 >> ],
      iptp |-> [ drugs_per_pregnant_woman |-> << 3, 10 >>,
                 delivery_per_visit |-> << 5, 10 >>,
                 pregnant_proportion |-> << 4, 100 >> ],
      vaccine |-> [ vaccine_per_dose |-> << 2, 1 >>,
                    delivery_per_dose |-> << 15, 10 >>,
                    target_proportion |-> << 3, 100 >> ],
      cm |-> [ rdt_per_test |-> << 5, 10 >>, act_per_treatment |-> << 12, 10 >>,
               test_rate |-> << 15, 100 >>, positivity_rate |-> << 3, 10 >> ],
      pmc |-> [ drugs_per_infant_per_dose |-> << 4, 10 >>,
                delivery_per_dose |-> << 5, 10 >>,
                infant_proportion |-> << 3, 100 >> ],
      lsm |-> [ cost_per_hectare_per_year |-> << 150, 1 >>,
                hectares_per_1000_pop |-> << 5, 10 >> ] ]

\* ic.get(key, ...) for an intervention of DEFAULT_UNIT_COSTS
Ic(intervention, key) ==
    SFloat(DEFAULT_UNIT_COSTS[intervention][key][1],
           DEFAULT_UNIT_COSTS[intervention][key][2])

\* target * a * n * years + target * b * n * years
PerTarget(target, a, b, n, years) ==
    SAdd(SMul(SMul(SMul(target, a), SFromInt(n)), SFromInt(years)),
         SMul(SMul(SMul(target, b), SFromInt(n)), SFromInt(years)))

\* The cost of one intervention in one unit under DEFAULT_UNIT_COSTS.
_calculate_intervention_cost(intervention, population, years) ==
    LET pop == SFromInt(population)
        yrs == SFromInt(years)
    IN  CASE intervention = "itn" ->
               LET nets == SMul(pop, Ic("itn", "nets_per_capita"))
                   cycles == SDiv(yrs, SFromInt(3))
               IN  SAdd(SAdd(SMul(SMul(nets, Ic("itn", "procurement")), cycles),
                             SMul(SMul(nets, Ic("itn", "distribution")), cycles)),
                        SMul(SMul(pop, Ic("itn", "bcc_annual")), yrs))
          [] intervention = "irs" ->
               LET structures == SDiv(pop, SFromInt(5))
               IN  SAdd(SAdd(SMul(SMul(structures,
                                       Ic("irs", "insecticide_per_structure")),
                                  yrs),
                             SMul(SMul(structures,
                                       Ic("irs", "operations_per_structure")),
                                  yrs)),
                        SMul(SMul(pop, Ic("irs", "mobilization_per_capita")),
                             yrs))
          [] intervention = "smc" ->
               PerTarget(SMul(pop, Ic("smc", "under5_proportion")),
                         Ic("smc", "drugs_per_child_per_cycle"),
                         Ic("smc", "delivery_per_child_per_cycle"), 4, years)
          [] intervention = "iptp" ->
               PerTarget(SMul(pop, Ic("iptp", "pregnant_proportion")),
                         Ic("iptp", "drugs_per_pregnant_woman"),
                         Ic("iptp", "delivery_per_visit"), 4, years)
          [] intervention = "vaccine" ->
               PerTarget(SMul(pop, Ic("vaccine", "target_proportion")),
                         Ic("vaccine", "vaccine_per_dose"),
                         Ic("vaccine", "delivery_per_dose"), 4, years)
          [] intervention = "cm" ->
               LET tests == SMul(pop, Ic("cm", "test_rate"))
                   treatments == SMul(tests, Ic("cm", "positivity_rate"))
               IN  SAdd(SMul(SMul(tests, Ic("cm", "rdt_per_test")), yrs),
                        SMul(SMul(treatments, Ic("cm", "act_per_treatment")),
                             yrs))
          [] intervention = "pmc" ->
               PerTarget(SMul(pop, Ic("pmc", "infant_proportion")),
                         Ic("pmc", "drugs_per_infant_per_dose"),
                         Ic("pmc", "delivery_per_dose"), 3, years)
          [] intervention = "lsm" ->
               LET hectares == SMul(SDiv(pop, SFromInt(1000)),
                                    Ic("lsm", "hectares_per_1000_pop"))
               IN  SMul(SMul(hectares, Ic("lsm", "cost_per_hectare_per_year")),
                        yrs)
          [] OTHER -> SZero

\* effect_rates.get(intervention, 0.01), as a decimal literal
EffectRate(intervention) ==
    CASE intervention = "itn" -> SFloat(5, 100)
      [] intervention = "irs" -> SFloat(4, 100)
      [] intervention = "smc" -> SFloat(6, 100)
      [] intervention = "cm" -> SFloat(3, 100)
      [] intervention = "iptp" -> SFloat(1, 100)
      [] intervention = "vaccine" -> SFloat(2, 100)
      [] intervention = "pmc" -> SFloat(15, 1000)
      [] intervention = "lsm" -> SFloat(5, 1000)
      [] OTHER -> SFloat(1, 100)

_estimate_effect(intervention, population) ==
    SMul(SFromInt(population), EffectRate(intervention))

\* The (unit, intervention) pairs of an assignment, in the order the two
\* loops of calculate_scenario_cost visit them.
RECURSIVE PairsOf(_)
PairsOf(interventions) ==
    IF interventions = << >> THEN << >>
    ELSE LET unit == Head(interventions)
         IN  [ i \in DOMAIN unit[2] |-> << unit[1], unit[2][i] >> ]
             \o PairsOf(Tail(interventions))

\* item.get("admin_unit_code", item["admin_unit_name"]): the key of one item
\* of the request's population data in pop_map.
PopKey(item) ==
    IF "admin_unit_code" \in DOMAIN item THEN item.admin_unit_code
    ELSE item.admin_unit_name

\* pop_map.get(unit_key, {}).get("population", 0): the last item of the
\* request's population data with that key counts.
RECURSIVE PopulationOf(_, _)
PopulationOf(population_data, unit_key) ==
    IF population_data = << >> THEN 0
    ELSE LET item == population_data[Len(population_data)]
         IN  IF PopKey(item) = unit_key THEN item.population
             ELSE PopulationOf(SubSeq(population_data, 1,
                                      Len(population_data) - 1), unit_key)

\* The ScenarioCostItem of one pair.
ScenarioCostItem(scenario_id, pair, population_data, years) ==
    [ scenario_id |-> scenario_id,
      admin_unit_code |-> pair[1],
      intervention_code |-> pair[2],
      total_cost |-> _calculate_intervention_cost(
                         pair[2], PopulationOf(population_data, pair[1]), years),
      years |-> years ]

\* The cost items of the pairs from position i on, appended to acc in order.
RECURSIVE CostItemsFrom(_, _, _, _, _, _)
CostItemsFrom(scenario_id, pairs, population_data, years, i, acc) ==
    IF i > Len(pairs) THEN acc
    ELSE CHOOSE rows \in
           { CostItemsFrom(scenario_id, pairs, population_data, years, i + 1,
                           Append(acc, item)) :
               item \in { ScenarioCostItem(scenario_id, pairs[i],
                                           population_data, years) } } : TRUE

\* acc + the costs of the items from position i on, added in order.
RECURSIVE SumFrom(_, _, _)
SumFrom(items, i, acc) ==
    IF i > Len(items) THEN acc
    ELSE \* each partial sum is computed once
         CHOOSE t \in { SumFrom(items, i + 1, next) :
                           next \in { SAdd(acc, items[i].total_cost) } } : TRUE

SumOf(items) == SumFrom(items, 1, SZero)

\* The keys of a sequence of rows in order of first appearance.
RECURSIVE FirstKeys(_, _, _)
FirstKeys(rows, key(_), seen) ==
    IF rows = << >> THEN << >>
    ELSE IF key(Head(rows)) \in seen THEN FirstKeys(Tail(rows), key, seen)
    ELSE << key(Head(rows)) >>
         \o FirstKeys(Tail(rows), key, seen \cup { key(Head(rows)) })

\* cost_by_intervention: each code's costs added up in the order of the items
CostByIntervention(items) ==
    LET code(r) == r.intervention_code
        codes == FirstKeys(items, code, {})
    IN  [ i \in DOMAIN codes |->
            LET mine(r) == r.intervention_code = codes[i]
            IN  [ key |-> codes[i], total_cost |-> SumOf(SelectSeq(items, mine)) ] ]

\* cost_by_unit: each unit of the assignment with its unit_total
CostByUnit(interventions, items) ==
    [ i \in DOMAIN interventions |->
        LET mine(r) == r.admin_unit_code = interventions[i][1]
        IN  [ key |-> interventions[i][1],
              total_cost |-> SumOf(SelectSeq(items, mine)) ] ]

\* total_population: the populations of the assignment's units added up
RECURSIVE TotalPopulation(_, _)
TotalPopulation(interventions, population_data) ==
    IF interventions = << >> THEN 0
    ELSE PopulationOf(population_data, Head(interventions)[1])
         + TotalPopulation(Tail(interventions), population_data)

\* Mutant of ScenarioCostSummary: cost_per_capita is null only when the
\* total population is 0.
ScenarioCostSummary_NullAtZero(scenario_id, interventions, items, total_population) ==
    LET total_cost == SumOf(items)
    IN  [ scenario_id |-> scenario_id,
          total_cost |-> total_cost,
          cost_by_intervention |-> CostByIntervention(items),
          cost_by_unit |-> CostByUnit(interventions, items),
          cost_per_capita |->
              IF total_population # 0
              THEN SDiv(total_cost, SFromInt(total_population)) ELSE NoFloat,
          total_population |-> total_population ]

\* The ScenarioCostSummary calculate_scenario_cost returns.
ScenarioCostSummary(scenario_id, interventions, items, total_population) ==
    LET total_cost == SumOf(items)
    IN  [ scenario_id |-> scenario_id,
          total_cost |-> total_cost,
          cost_by_intervention |-> CostByIntervention(items),
          cost_by_unit |-> CostByUnit(interventions, items),
          cost_per_capita |->
              IF total_population > 0
              THEN SDiv(total_cost, SFromInt(total_population)) ELSE NoFloat,
          total_population |-> total_population ]

\* POST /projects/{project_id}/scenarios/{scenario_id}/calculate-cost with
\* no unit_costs
CalculateCost(project_id, scenario_id, user_id, population_data, years) ==
    /\ request' = ScenarioRequest("calculate_cost", project_id, scenario_id,
                                  user_id)
    /\ IF ~IsMember(project_id, user_id)
       THEN /\ response' = NotAMember
            /\ UNCHANGED scnVars
       ELSE IF ~ScenarioFound(scenarios, scenario_id)
       THEN /\ response' = Reply(400, "Scenario not found")
            /\ UNCHANGED scnVars
       ELSE LET interventions == scenarios[scenario_id].interventions
            IN  \E items \in { CostItemsFrom(scenario_id, PairsOf(interventions),
                                             population_data, years, 1, << >>) } :
                   \E summary \in
                      { ScenarioCostSummary(
                            scenario_id, interventions, items,
                            TotalPopulation(interventions, population_data)) } :
                      /\ costItems' = NotOfScenario(costItems, scenario_id)
                                      \o items
                      /\ scenarios' = [ scenarios EXCEPT
                             ![scenario_id].total_cost = summary.total_cost,
                             ![scenario_id].population_covered =
                                 summary.total_population ]
                      /\ response' = Reply(200, summary)
                      /\ UNCHANGED forecasts

\* ---------------------------------------------------------------------
\* The costing of one scenario: its assignment is edited and costed with
\* different population data.

CostProject == "A"
CostUser == "u1"

\* assignments: two units sharing a code, an unknown code, one unit with two
\* codes
CostPlans ==
    { << << "D1", << "itn" >> >>, << "D2", << "itn", "vaccine" >> >> >>,
      << << "D1", << "zzz" >> >> >>,
      << << "D2", << "irs", "itn" >> >> >> }

Pop(name, population) == [ admin_unit_name |-> name, population |-> population ]

PopCoded(name, code, population) ==
    [ admin_unit_name |-> name, admin_unit_code |-> code,
      population |-> population ]

CostPopulations ==
    { << >>,
      << Pop("D1", 1), Pop("D2", 1) >>,
      << Pop("D1", 0), Pop("D2", 0) >>,
      << Pop("D1", -1) >>,
      << PopCoded("North", "D1", 1000), PopCoded("South", "D2", 1500) >>,
      << Pop("D2", 7), Pop("D2", 3) >>,
      << Pop("D1", 2), Pop("D3", 9) >> }

CostYears == { 5 }

\* the project has one scenario; it was created by CreateScenario
InitCost ==
    /\ wf = NoRows
    /\ dataSources = << >>
    /\ configs = << >>
    /\ results = << >>
    /\ request = Request("none", None, None, None)
    /\ response = Response(0, << >>, NoVerdict, NoState)
    /\ \E interventions \in CostPlans :
          scenarios = << NewScenario(CostProject, interventions, CostUser) >>
    /\ costItems = << >>
    /\ forecasts = << >>
    /\ sessions = NoSessions
    /\ HarnessIdle

NextCost ==
    \/ \E interventions \in CostPlans :
          /\ UpdateScenario(CostProject, 1, CostUser, interventions)
          /\ ScenarioFrame
    \/ \E scenario_id \in 1..2, population_data \in CostPopulations,
          years \in CostYears :
          /\ CalculateCost(CostProject, scenario_id, CostUser, population_data,
                           years)
          /\ ScenarioFrame

SpecCost == InitCost /\ [][NextCost]_vars

\* The sum of the magnitudes of the items' costs, exactly.
RECURSIVE AbsSum(_)
AbsSum(items) ==
    IF items = << >> THEN << >>
    ELSE BAdd(Head(items).total_cost.mag, AbsSum(Tail(items)))

\* |x - y|, exactly.
SDistance(x, y) ==
    IF x.neg = y.neg THEN Distance(x.mag, y.mag) ELSE BAdd(x.mag, y.mag)

\* x and y are two floating-point sums of the same items: each addition
\* rounds by at most 2^-53 of its result, so the two differ by at most
\* 2 * Len(items) * 2^-53 of the sum of the items' magnitudes.
SameUpToRounding(x, y, items) ==
    ~BLess(BMulSmall(AbsSum(items), Len(items)),
           ShiftLeft(SDistance(x, y), Mantissa - 1))

\* The items are one per pair of the assignment, in order; an unknown code's
\* item costs 0.
OnePerPair(items, interventions) ==
    LET pairs == PairsOf(interventions)
    IN  /\ Len(items) = Len(pairs)
        /\ \A i \in DOMAIN pairs :
              /\ items[i].admin_unit_code = pairs[i][1]
              /\ items[i].intervention_code = pairs[i][2]
              /\ items[i].intervention_code \notin DOMAIN DEFAULT_UNIT_COSTS
                    => items[i].total_cost = SZero

\* C13 as stated: after calculate_scenario_cost completes, the scenario's
\* cost items are exactly one per (unit, intervention) pair of its current
\* assignment, the stored total_cost equals the sum of those items' costs
\* and equals the sum of cost_by_intervention and the sum of cost_by_unit,
\* and cost_per_capita is null exactly when the total population is 0.
C13_ExactSums ==
    ( request.op = "calculate_cost" /\ response.code = 200 )
    => \A items \in { OfScenario(costItems, request.scenario_id) } :
          /\ OnePerPair(items, scenarios[request.scenario_id].interventions)
          /\ scenarios[request.scenario_id].total_cost = SumOf(items)
          /\ response.body.total_cost = SumOf(items)
          /\ SumOf(response.body.cost_by_intervention) = SumOf(items)
          /\ SumOf(response.body.cost_by_unit) = SumOf(items)
          /\ (response.body.cost_per_capita = NoFloat)
                <=> (response.body.total_population = 0)

\* C13, amended: after calculate_scenario_cost completes, the scenario's
\* cost items are exactly one per (unit, intervention) pair of its current
\* assignment with all earlier items removed, the stored total_cost equals
\* the sum of those items' costs added in order, the sums of
\* cost_by_intervention and of cost_by_unit equal it up to floating-point
\* rounding, and cost_per_capita is null exactly when the total population
\* is not positive.
C13_SumsUpToRounding ==
    ( request.op = "calculate_cost" /\ response.code = 200 )
    => \A items \in { OfScenario(costItems, request.scenario_id) } :
          /\ OnePerPair(items, scenarios[request.scenario_id].interventions)
          /\ scenarios[request.scenario_id].total_cost = SumOf(items)
          /\ response.body.total_cost = SumOf(items)
          /\ SameUpToRounding(SumOf(response.body.cost_by_intervention),
                              SumOf(items), items)
          /\ SameUpToRounding(SumOf(response.body.cost_by_unit),
                              SumOf(items), items)
          /\ (response.body.cost_per_capita = NoFloat)
                <=> (response.body.total_population <= 0)

\* A scenario was costed again after its assignment changed: its earlier
\* items are gone, the sum by unit is not the total, and the total
\* population is positive.
C13_Witness ==
    /\ request.op = "calculate_cost"
    /\ response.code = 200
    /\ Len(costItems) = 3
    /\ SumOf(response.body.cost_by_unit) # response.body.total_cost
    /\ response.body.cost_per_capita # NoFloat

\* ---------------------------------------------------------------------
\* optimize_scenario

\* float("inf"), and a finite ratio
Infinite == [ inf |-> TRUE, val |-> SZero ]
Finite(x) == [ inf |-> FALSE, val |-> x ]

\* x["icer"] < y["icer"]
IcerLess(x, y) == ~x.inf /\ (y.inf \/ SLess(x.val, y.val))

\* One entry of ce_data.
Candidate(pair, population_data) ==
    LET population == PopulationOf(population_data, pair[1])
    IN  CHOOSE c \in
          { [ unit_key |-> pair[1],
              intervention |-> pair[2],
              cost |-> cost,
              effect |-> effect,
              icer |-> IF SLess(SZero, effect) THEN Finite(SDiv(cost, effect))
                       ELSE Infinite ] :
              cost \in { _calculate_intervention_cost(pair[2], population, 5) },
              effect \in { _estimate_effect(pair[2], population) } } : TRUE

\* ce_data of an assignment
CeData(interventions, population_data) ==
    LET pairs == PairsOf(interventions)
    IN  [ i \in DOMAIN pairs |-> Candidate(pairs[i], population_data) ]

\* item put into an ascending sequence behind every entry that is not greater
RECURSIVE InsertByIcer(_, _)
InsertByIcer(sorted, item) ==
    IF sorted = << >> THEN << item >>
    ELSE IF IcerLess(item.icer, Head(sorted).icer) THEN << item >> \o sorted
    ELSE << Head(sorted) >> \o InsertByIcer(Tail(sorted), item)

\* ce_data.sort(key=lambda x: x["icer"]): stable, ascending
RECURSIVE SortByIcer(_, _, _)
SortByIcer(ce_data, i, sorted) ==
    IF i > Len(ce_data) THEN sorted
    ELSE SortByIcer(ce_data, i + 1, InsertByIcer(sorted, ce_data[i]))

\* The selection loop from position i on: the items accepted so far and
\* their running cost.
RECURSIVE Select(_, _, _, _)
Select(ce_data, i, budget_constraint, acc) ==
    IF i > Len(ce_data) THEN acc
    ELSE CHOOSE r \in
           { Select(ce_data, i + 1, budget_constraint,
                    IF SLessEq(sum, budget_constraint)
                    THEN [ accepted |-> Append(acc.accepted, ce_data[i]),
                           running_cost |-> sum ]
                    ELSE acc) :
               sum \in { SAdd(acc.running_cost, ce_data[i].cost) } } : TRUE

\* optimized: the accepted items by unit, units and codes in the order of
\* acceptance
Optimized(accepted) ==
    LET unit(c) == c.unit_key
        units == FirstKeys(accepted, unit, {})
    IN  [ u \in DOMAIN units |->
            LET mine(c) == c.unit_key = units[u]
                own == SelectSeq(accepted, mine)
            IN  << units[u], [ k \in DOMAIN own |-> own[k].intervention ] >> ]

\* Mutant of optimize_scenario: the assignment is left as it was.
optimize_scenario_KeepAssignment(scenario, budget_constraint, population_data) ==
    CHOOSE row \in
      { [ scenario EXCEPT !.total_cost = selection.running_cost ] :
          selection \in
            { Select(ce_data, 1, budget_constraint,
                     [ accepted |-> << >>, running_cost |-> SZero ]) :
                ce_data \in
                  { SortByIcer(unsorted, 1, << >>) :
                      unsorted \in { CeData(scenario.interventions,
                                            population_data) } } } } : TRUE

\* CostingService.optimize_scenario on a scenario that exists
optimize_scenario(scenario, budget_constraint, population_data) ==
    CHOOSE row \in
      { [ scenario EXCEPT !.interventions = Optimized(selection.accepted),
                          !.total_cost = selection.running_cost ] :
          selection \in
            { Select(ce_data, 1, budget_constraint,
                     [ accepted |-> << >>, running_cost |-> SZero ]) :
                ce_data \in
                  { SortByIcer(unsorted, 1, << >>) :
                      unsorted \in { CeData(scenario.interventions,
                                            population_data) } } } } : TRUE

\* The body of POST .../optimize beside the path parameters.
OptimizeRequest(project_id, scenario_id, user_id, budget_constraint, population_data) ==
    [ op |-> "optimize", project_id |-> project_id,
      scenario_id |-> scenario_id, user_id |-> user_id,
      budget_constraint |-> budget_constraint,
      population_data |-> population_data ]

\* POST /projects/{project_id}/scenarios/{scenario_id}/optimize
OptimizeScenario(project_id, scenario_id, user_id, budget_constraint, population_data) ==
    /\ request' = OptimizeRequest(project_id, scenario_id, user_id,
                                  budget_constraint, population_data)
    /\ IF ~IsMember(project_id, user_id)
       THEN /\ response' = NotAMember
            /\ UNCHANGED scnVars
       ELSE IF ~ScenarioFound(scenarios, scenario_id)
       THEN /\ response' = Reply(400, "Scenario not found")
            /\ UNCHANGED scnVars
       ELSE \E row \in { optimize_scenario(scenarios[scenario_id],
                                           budget_constraint,
                                           population_data) } :
               /\ scenarios' = [ scenarios EXCEPT ![scenario_id] = row ]
               /\ response' = Reply(200, row)
               /\ UNCHANGED << costItems, forecasts >>

\* ---------------------------------------------------------------------
\* One scenario is optimized under different budgets, and its assignment
\* is entered again.

BudgetPlans ==
    { << << "D1", << "irs", "itn" >> >>, << "D2", << "cm", "itn" >> >> >>,
      << << "D1", << "zzz", "lsm" >> >> >> }

BudgetPopulations ==
    { << Pop("D1", 1000), Pop("D2", 100) >>,
      << Pop("D1", 0), Pop("D2", 100) >> }

\* budget_constraint is any JSON number
Budgets == { SFromInt(b) : b \in { -1, 500, 20000 } }

InitBudget ==
    /\ wf = NoRows
    /\ dataSources = << >>
    /\ configs = << >>
    /\ results = << >>
    /\ request = Request("none", None, None, None)
    /\ response = Response(0, << >>, NoVerdict, NoState)
    /\ \E interventions \in BudgetPlans :
          scenarios = << NewScenario(CostProject, interventions, CostUser) >>
    /\ costItems = << >>
    /\ forecasts = << >>
    /\ sessions = NoSessions
    /\ HarnessIdle

NextBudget ==
    \/ \E interventions \in BudgetPlans :
          /\ UpdateScenario(CostProject, 1, CostUser, interventions)
          /\ ScenarioFrame
    \/ \E scenario_id \in 1..2, budget_constraint \in Budgets,
          population_data \in BudgetPopulations :
          /\ OptimizeScenario(CostProject, scenario_id, CostUser,
                              budget_constraint, population_data)
          /\ ScenarioFrame

SpecBudget == InitBudget /\ [][NextBudget]_vars

\* The (unit, intervention) pairs of an assignment, as a set.
PairSet(interventions) ==
    { PairsOf(interventions)[i] : i \in DOMAIN PairsOf(interventions) }

\* The costs of the first k visited items that were kept, added in order.
RECURSIVE RunningCost(_, _, _)
RunningCost(visited, kept, k) ==
    IF k = 0 THEN SZero
    ELSE IF << visited[k].unit_key, visited[k].intervention >> \in kept
    THEN SAdd(RunningCost(visited, kept, k - 1), visited[k].cost)
    ELSE RunningCost(visited, kept, k - 1)

\* The order of the visit is ascending in cost/effect (an item without
\* effect has the ratio +infinity, so it comes last), and an item is kept
\* exactly when its cost on top of the cost kept so far is within the budget.
GreedyByIcer(visited, kept, budget_constraint) ==
    /\ \A i, j \in DOMAIN visited :
          i < j => ~IcerLess(visited[j].icer, visited[i].icer)
    /\ \A i \in DOMAIN visited :
          visited[i].icer.inf <=> ~SLess(SZero, visited[i].effect)
    /\ \A k \in DOMAIN visited :
          (<< visited[k].unit_key, visited[k].intervention >> \in kept)
          <=> SLessEq(SAdd(RunningCost(visited, kept, k - 1), visited[k].cost),
                      budget_constraint)

\* What an optimization that found its scenario leaves behind, apart from
\* the bound on the total.
OptimizedGreedily ==
    \A before \in { scenarios[request'.scenario_id] },
       after \in { scenarios'[request'.scenario_id] } :
       \A visited \in
             { SortByIcer(ce_data, 1, << >>) :
                 ce_data \in { CeData(before.interventions,
                                      request'.population_data) } } :
          /\ GreedyByIcer(visited, PairSet(after.interventions),
                          request'.budget_constraint)
          /\ PairSet(after.interventions) \subseteq PairSet(before.interventions)
          /\ Len(PairsOf(after.interventions))
                = Cardinality(PairSet(after.interventions))
          /\ after.total_cost
                = RunningCost(visited, PairSet(after.interventions),
                              Len(visited))

\* C14 as stated: optimize_scenario visits the candidates in ascending
\* cost/effect order (effect = 0 last) and keeps an item when the cumulative
\* cost stays within the budget; afterwards the assignment holds the
\* accepted items only, a subset of the previous assignment, the stored
\* total_cost is the sum of their costs, and that total never exceeds the
\* budget.
C14_WithinBudget ==
    [][ ( request'.op = "optimize" /\ response'.code = 200 )
        => /\ OptimizedGreedily
           /\ SLessEq(scenarios'[request'.scenario_id].total_cost,
                      request'.budget_constraint) ]_vars

\* C14, amended: as stated, but the total is within the budget whenever
\* the budget is not negative.
C14_WithinBudgetUnlessNegative ==
    [][ ( request'.op = "optimize" /\ response'.code = 200 )
        => /\ OptimizedGreedily
           /\ SLessEq(SZero, request'.budget_constraint)
                 => SLessEq(scenarios'[request'.scenario_id].total_cost,
                            request'.budget_constraint) ]_vars

\* With 500 to spend on 1000 people in D1 and 100 in D2, cm in D2 was taken,
\* itn in D1 did not fit, and itn in D2, visited after it, was taken.
C14_Witness ==
    /\ request.op = "optimize"
    /\ response.code = 200
    /\ request.budget_constraint = SFromInt(500)
    /\ request.population_data = << Pop("D1", 1000), Pop("D2", 100) >>
    /\ scenarios[1].interventions = << << "D2", << "cm", "itn" >> >> >>
    /\ SLess(SFromInt(400), scenarios[1].total_cost)

\* ---------------------------------------------------------------------
\* The eligibility rule, on the rows calculate_stratification stores.

\* The codes a stored row offers.
EligibleOf(row) == Range(row.eligible_interventions)

\* C21: the eligible interventions of a stored result depend only on its
\* risk level, whatever its metric value and unit: case management at every
\* level; ITN and IPTp at low, moderate and high; IRS, SMC and vaccine at
\* moderate and high only; so the set at very_low is exactly {CM} and the
\* set never shrinks as the level rises.
C21_EligibilityByLevel ==
    \A i \in DOMAIN results :
       LET level == results[i].risk_level
           eligible == EligibleOf(results[i])
       IN  /\ eligible \subseteq { "CM", "ITN", "IRS", "IPTp", "SMC", "VACCINE" }
           /\ "CM" \in eligible
           /\ \A code \in { "ITN", "IPTp" } :
                 code \in eligible <=> level \in { "low", "moderate", "high" }
           /\ \A code \in { "IRS", "SMC", "VACCINE" } :
                 code \in eligible <=> level \in { "moderate", "high" }
           /\ level = "very_low" => eligible = { "CM" }
           /\ \A j \in DOMAIN results :
                 /\ results[j].risk_level = level
                       => results[j].eligible_interventions
                             = results[i].eligible_interventions
                 /\ Rank(level) <= Rank(results[j].risk_level)
                       => eligible \subseteq EligibleOf(results[j])

\* The stored results hold a very_low row and two low rows of different
\* metric values.
C21_Witness ==
    /\ \E i, j \in DOMAIN results :
          /\ results[i].risk_level = "low"
          /\ results[j].risk_level = "low"
          /\ results[i].metric_value # results[j].metric_value
    /\ \E i \in DOMAIN results : results[i].risk_level = "very_low"

\* ---------------------------------------------------------------------
\* One scenario is costed and forecast from different baselines.

RatioPlan == << << "D1", << "cm" >> >> >>

RatioPopulations == { << Pop("D1", 1000) >> }

\* no cases but deaths, cases but no deaths, both
RatioBaselines ==
    { [ baseline_cases |-> 0, baseline_deaths |-> 500 ],
      [ baseline_cases |-> 1000, baseline_deaths |-> 0 ],
      [ baseline_cases |-> 1000, baseline_deaths |-> 20 ] }

RatioRuns ==
    { << "simple", b >> : b \in RatioBaselines }
    \cup { << "openmalaria", [ baseline_cases |-> 1000, baseline_deaths |-> 20 ] >> }

RatioYears == 2

InitRatio ==
    /\ wf = NoRows
    /\ dataSources = << >>
    /\ configs = << >>
    /\ results = << >>
    /\ request = Request("none", None, None, None)
    /\ response = Response(0, << >>, NoVerdict, NoState)
    /\ scenarios = << NewScenario(CostProject, RatioPlan, CostUser) >>
    /\ costItems = << >>
    /\ forecasts = << >>
    /\ sessions = NoSessions
    /\ HarnessIdle

NextRatio ==
    \/ \E population_data \in RatioPopulations :
          /\ CalculateCost(CostProject, 1, CostUser, population_data, 5)
          /\ ScenarioFrame
    \/ \E run \in RatioRuns :
          /\ RunForecast(CostProject, 1, CostUser, run[1], run[2], RatioYears)
          /\ ScenarioFrame

SpecRatio == InitRatio /\ [][NextRatio]_vars

\* A ratio is there exactly when its averted count is positive.
DecidedBy(ratio, positive) == (ratio # NoFloat) <=> positive

\* C22: in every forecast record run_forecast produces for a scenario that
\* has a cost, each cost-effectiveness ratio is computed when its own
\* averted count is positive and is null otherwise: cost_per_case_averted
\* by cases_averted, cost_per_death_averted by deaths_averted and
\* cost_per_daly_averted by dalys_averted, whatever the other counts are.
\* For a scenario without a cost, and in a pending record, all three are
\* null.
C22_RatioByOwnCount ==
    [][ ( request'.op = "run_forecast" /\ response'.code = 201 ) =>
          LET forecast == forecasts'[Len(forecasts')]
              total_cost == scenarios[request'.scenario_id].total_cost
          IN  IF forecast.status = "completed"
                 /\ total_cost # NoFloat /\ total_cost # SZero
              THEN /\ DecidedBy(forecast.cost_per_case_averted,
                                forecast.cases_averted > 0)
                   /\ DecidedBy(forecast.cost_per_death_averted,
                                forecast.deaths_averted > 0)
                   /\ DecidedBy(forecast.cost_per_daly_averted,
                                SLess(SZero, forecast.dalys_averted))
              ELSE /\ forecast.cost_per_case_averted = NoFloat
                   /\ forecast.cost_per_death_averted = NoFloat
                   /\ forecast.cost_per_daly_averted = NoFloat ]_vars

\* ---------------------------------------------------------------------
\* Two scenarios of one project, both {D1: [cm]}, are costed (the first for
\* 1000 people, the second for 2000), forecast and compared.

CompareBaselines ==
    { [ baseline_cases |-> 1000, baseline_deaths |-> 20 ],
      [ baseline_cases |-> 2000, baseline_deaths |-> 20 ] }

InitCompare ==
    /\ wf = NoRows
    /\ dataSources = << >>
    /\ configs = << >>
    /\ results = << >>
    /\ request = Request("none", None, None, None)
    /\ response = Response(0, << >>, NoVerdict, NoState)
    /\ scenarios = << NewScenario(CostProject, RatioPlan, CostUser),
                      NewScenario(CostProject, RatioPlan, CostUser) >>
    /\ costItems = << >>
    /\ forecasts = << >>
    /\ sessions = NoSessions
    /\ HarnessIdle

NextCompare ==
    \/ \E scenario_id \in 1..2 :
          \* each scenario is costed once, before the first forecast is run
          /\ forecasts = << >>
          /\ scenarios[scenario_id].total_cost = NoFloat
          /\ CalculateCost(CostProject, scenario_id, CostUser,
                           << Pop("D1", 1000 * scenario_id) >>, 5)
          /\ ScenarioFrame
    \/ \E scenario_id \in 1..2, baseline_data \in CompareBaselines :
          /\ RunForecast(CostProject, scenario_id, CostUser, "simple",
                         baseline_data, RatioYears)
          /\ ScenarioFrame
    \/ /\ RunForecast(CostProject, 1, CostUser, "openmalaria",
                      [ baseline_cases |-> 2000, baseline_deaths |-> 20 ],
                      RatioYears)
       /\ ScenarioFrame
    \/ CompareForecasts(CostProject, CostUser) /\ ScenarioFrame

SpecCompare == InitCompare /\ [][NextCompare]_vars

\* The summaries with a positive number of cases averted / with a ratio.
WithCases(summaries) ==
    { k \in DOMAIN summaries : summaries[k].total_cases_averted > 0 }

WithRatio(summaries) ==
    { k \in DOMAIN summaries :
        summaries[k].cost_effectiveness.cost_per_case_averted # NoFloat }

\* C23: compare_forecasts reports for each scenario of the project the
\* totals of its most recent completed forecast, or none; best_by_cases_averted
\* is the scenario with the greatest positive cases_averted and
\* best_by_cost_effectiveness the one with the smallest non-null
\* cost_per_case_averted, in both cases the first such scenario in the order
\* of the scan when several tie; each is none when no scenario qualifies.
C23_BestByScan ==
    ( request.op = "compare_forecasts" /\ response.code = 200 ) =>
      LET summaries == response.body.scenarios
          ratio(k) == summaries[k].cost_effectiveness.cost_per_case_averted
      IN  /\ Len(summaries) = Len(scenarios)
          /\ \A k \in DOMAIN summaries :
                LET i == LatestCompleted(forecasts, k)
                IN  /\ summaries[k].scenario_id = k
                    /\ i = 0 => /\ summaries[k].total_cases_averted = NoCount
                                /\ ratio(k) = NoFloat
                    /\ i # 0 =>
                         /\ forecasts[i].scenario_id = k
                         /\ forecasts[i].status = "completed"
                         /\ \A j \in DOMAIN forecasts :
                               ( /\ forecasts[j].scenario_id = k
                                 /\ forecasts[j].status = "completed" )
                               => j <= i
                         /\ summaries[k].total_cases_averted
                               = forecasts[i].cases_averted
                         /\ ratio(k) = forecasts[i].cost_per_case_averted
          /\ IF WithCases(summaries) = {}
             THEN response.body.best_by_cases_averted = 0
             ELSE \E k \in WithCases(summaries) :
                    /\ response.body.best_by_cases_averted
                          = summaries[k].scenario_id
                    /\ \A j \in WithCases(summaries) :
                          /\ summaries[j].total_cases_averted
                                <= summaries[k].total_cases_averted
                          /\ j < k => summaries[j].total_cases_averted
                                         < summaries[k].total_cases_averted
          /\ IF WithRatio(summaries) = {}
             THEN response.body.best_by_cost_effectiveness = 0
             ELSE \E k \in WithRatio(summaries) :
                    /\ response.body.best_by_cost_effectiveness
                          = summaries[k].scenario_id
                    /\ \A j \in WithRatio(summaries) :
                          /\ SLessEq(ratio(k), ratio(j))
                          /\ j < k => SLess(ratio(k), ratio(j))

\* Both scenarios have the same cost per case averted although the second
\* averts more cases: the second is best by cases averted and the first,
\* seen first, stays best by cost-effectiveness.
C23_Witness ==
    /\ request.op = "compare_forecasts"
    /\ response.code = 200
    /\ response.body.best_by_cases_averted = 2
    /\ response.body.best_by_cost_effectiveness = 1
    /\ response.body.scenarios[2].cost_effectiveness.cost_per_case_averted
          = response.body.scenarios[1].cost_effectiveness.cost_per_case_averted
    /\ response.body.scenarios[1].total_cases_averted > 0
    /\ \E i \in DOMAIN forecasts : forecasts[i].status = "pending"

(***************************************************************************)
(* Quality reports (quality_check_service.py, data_source_service.py)      *)
(*                                                                         *)
(* Scores are kept in thousandths, as the check functions round them       *)
(* (round(score, 3)).  A data file is described by what the five check     *)
(* functions count in it.  The data_quality_checks rows of a data source   *)
(* are kept with the source, in insertion order.                           *)
(***************************************************************************)
\* A file that cannot be loaded (_load_data returns None)
NoDataFrame == [ loaded |-> FALSE ]

\* What the checks count in a loaded file: the share of missing cells (in
\* thousandths) and the columns more than 10% empty, the consistency rules
\* broken, the columns with outliers, the disaggregation problems, and the
\* share of duplicated rows (in percent).
DataFrame(missing, flagged, inconsistent, outliers, undisaggregated, dup_pct) ==
    [ loaded |-> TRUE, missing |-> missing, flagged |-> flagged,
      inconsistent |-> inconsistent, outliers |-> outliers,
      undisaggregated |-> undisaggregated, dup_pct |-> dup_pct ]

Max0(x) == IF x < 0 THEN 0 ELSE x

\* Each check function returns (score, issues_found).
_check_completeness(df) == << Max0(1000 - df.missing), df.flagged >>

_check_consistency(df) == << Max0(1000 - df.inconsistent * 150), df.inconsistent >>

_check_outliers(df) == << Max0(1000 - df.outliers * 100), df.outliers >>

_check_disaggregation(df) == << Max0(1000 - df.undisaggregated * 200), df.undisaggregated >>

_check_duplicates(df) == << Max0(1000 - df.dup_pct * 20), IF df.dup_pct > 0 THEN 1 ELSE 0 >>

checks_to_run(df) ==
    << << "completeness", _check_completeness(df) >>,
       << "consistency", _check_consistency(df) >>,
       << "outliers", _check_outliers(df) >>,
       << "disaggregation", _check_disaggregation(df) >>,
       << "duplicates", _check_duplicates(df) >> >>

\* score < 0.5 failed, score < 0.8 warning, else passed
StatusOf(score) ==
    IF score < 500 THEN "failed" ELSE IF score < 800 THEN "warning" ELSE "passed"

\* A data_quality_checks row
DataQualityCheck(check_type, outcome) ==
    [ check_type |-> check_type, status |-> StatusOf(outcome[1]),
      score |-> outcome[1], issues_found |-> outcome[2] ]

\* f"{score:.0%}": the score in percent with no decimals, halves to even
Percent(score) ==
    LET q == score \div 10
        r == score % 10
    IN  IF r > 5 \/ ( r = 5 /\ q % 2 = 1 ) THEN q + 1 ELSE q

\* f"Improve {check_type}: score is {score:.0%}"
Improve(check) == << "Improve", check.check_type, "score is", Percent(check.score) >>

\* f"Review {issues_found} issues in {check_type} check"
Review(check) == << "Review", check.issues_found, "issues in", check.check_type >>

\* sum(scores) over the first n records
RECURSIVE ScoreSum(_, _)
ScoreSum(check_records, n) ==
    IF n = 0 THEN 0 ELSE ScoreSum(check_records, n - 1) + check_records[n].score

\* A QualityReportResponse.  overall_score is the mean of the scores, here
\* their sum (in five-thousandths); -1 stands for null.
QualityReport(overall_score, checks, recommendations) ==
    [ overall_score |-> overall_score, checks |-> checks,
      recommendations |-> recommendations ]

\* The recommendations run_all_checks builds from the records it has written
RunRecommendations(check_records) ==
    LET low == SelectSeq(check_records, LAMBDA rec : rec.score < 700)
    IN  [ i \in DOMAIN low |-> Improve(low[i]) ]

\* QualityCheckService.run_all_checks, from the rows it writes on
run_all_checks(df) ==
    IF ~ df.loaded
    THEN [ checks |-> << >>,
           report |-> QualityReport(-1, << >>,
                        << << "Could not load data file for quality checks" >> >>) ]
    ELSE LET todo == checks_to_run(df)
             check_records == [ i \in DOMAIN todo |->
                                  DataQualityCheck(todo[i][1], todo[i][2]) ]
             overall == ScoreSum(check_records, Len(check_records))
         IN  [ checks |-> check_records,
               report |-> QualityReport(overall, check_records,
                                        RunRecommendations(check_records)) ]

\* DataSourceService._generate_recommendations
RECURSIVE _generate_recommendations(_)
_generate_recommendations(checks) ==
    IF checks = << >> THEN << >>
    ELSE LET check == Head(checks)
         IN  ( IF check.score < 700 THEN << Improve(check) >> ELSE << >> )
             \o ( IF check.issues_found > 0 THEN << Review(check) >> ELSE << >> )
             \o _generate_recommendations(Tail(checks))

QualityRequest(op, data_source_id) == [ op |-> op, data_source_id |-> data_source_id ]

QualityFrame ==
    UNCHANGED << wf, configs, results, riskVars, fcVars, graphVars, scnVars, txVars >>

\* POST /data-sources/{id}/quality-check: run_quality_checks, with the
\* run_all_checks it calls.  The old rows of the source are deleted, the new
\* ones written and the overall score stored on the source.
RunAllChecks(data_source_id, df) ==
    /\ request' = QualityRequest("run_quality_checks", data_source_id)
    /\ IF data_source_id \notin DOMAIN dataSources
       THEN /\ response' = Reply(404, "Data source not found")
            /\ UNCHANGED dataSources
       ELSE LET run == run_all_checks(df)
            IN  /\ dataSources' =
                     [ dataSources EXCEPT
                         ![data_source_id].checks = run.checks,
                         ![data_source_id].quality_score = run.report.overall_score ]
                /\ response' = Reply(200, run.report)
    /\ QualityFrame

Reversed(s) == [ i \in DOMAIN s |-> s[Len(s) + 1 - i] ]

\* GET /data-sources/{id}/quality-report: get_quality_report.  The rows are
\* read ordered by created_at, newest first; rows written by one flush may
\* come back in insertion order or reversed.
GetQualityReport(data_source_id, newest_first) ==
    /\ request' = QualityRequest("get_quality_report", data_source_id)
    /\ IF data_source_id \notin DOMAIN dataSources
       THEN response' = Reply(404, "Data source not found")
       ELSE LET ds == dataSources[data_source_id]
                checks == IF newest_first THEN Reversed(ds.checks) ELSE ds.checks
            IN  response' = Reply(200, QualityReport(ds.quality_score, checks,
                                         _generate_recommendations(checks)))
    /\ UNCHANGED dataSources
    /\ QualityFrame

\* ---------------------------------------------------------------------
\* One uploaded data source whose file is checked and whose report is read.

DataFrames ==
    { NoDataFrame }
    \cup { DataFrame(m[1], m[2], inconsistent, outliers, undisaggregated, dup_pct) :
             m \in { << 0, 0 >>, << 350, 0 >>, << 350, 1 >> },
             inconsistent \in { 0, 1, 2, 4 }, outliers \in { 0, 2 },
             undisaggregated \in { 0, 1, 3 }, dup_pct \in { 0, 20 } }

InitQuality ==
    /\ wf = NoRows
    /\ dataSources = << [ name |-> "ds", source_type |-> "epidemiological",
                          quality_score |-> -1, checks |-> << >> ] >>
    /\ configs = << >>
    /\ results = << >>
    /\ request = QualityRequest("none", 0)
    /\ response = Reply(0, << >>)
    /\ scenarios = << >>
    /\ costItems = << >>
    /\ forecasts = << >>
    /\ sessions = NoSessions
    /\ HarnessIdle

NextQuality ==
    \/ \E data_source_id \in 1..2, df \in DataFrames : RunAllChecks(data_source_id, df)
    \/ \E data_source_id \in 1..2, newest_first \in BOOLEAN :
          GetQualityReport(data_source_id, newest_first)

SpecQuality == InitQuality /\ [][NextQuality]_vars

Entries(recommendations) == { recommendations[i] : i \in DOMAIN recommendations }

\* The report has an entry for every check scoring below 0.7 and for every
\* check with issues.
CoversChecks(report) ==
    \A i \in DOMAIN report.checks :
       LET check == report.checks[i]
       IN  /\ check.score < 700 => Improve(check) \in Entries(report.recommendations)
           /\ check.issues_found > 0 => Review(check) \in Entries(report.recommendations)

\* C24: when the checks of a data source have been run and its report is
\* read next, both reports carry the same checks, each has a recommendation
\* for every check scoring below 0.7 and for every check with issues found,
\* and the two list the same recommendations.
C24_SameRecommendations ==
    [][ ( /\ request.op = "run_quality_checks"
          /\ response.code = 200
          /\ response.body.checks # << >>
          /\ request'.op = "get_quality_report"
          /\ request'.data_source_id = request.data_source_id )
        => /\ response'.code = 200
           /\ Entries(response'.body.checks) = Entries(response.body.checks)
           /\ CoversChecks(response.body)
           /\ CoversChecks(response'.body)
           /\ Entries(response'.body.recommendations)
                 = Entries(response.body.recommendations) ]_vars

(***************************************************************************)
(* SpecFresh: a new project on which only the steps checked by the generic *)
(* validator are completed and reopened; nothing upstream of them is ever  *)
(* touched.                                                                *)
(***************************************************************************)
GenericSteps ==
    { "intervention_tailoring", "impact_forecasting", "scenario_selection",
      "resource_optimization", "service_delivery", "monitoring_evaluation" }

FreshReopens == { "intervention_tailoring", "impact_forecasting" }

NextFresh ==
    \/ CreateProject /\ Idle
    \/ \E step \in GenericSteps : CompleteStep(step, "u1", "t1") /\ Idle
    \/ \E step \in FreshReopens : ReopenStep(step) /\ Idle

SpecFresh == Init /\ [][NextFresh]_vars

\* The completed steps that have a blocking prerequisite which is not
\* completed.
AheadOfPrerequisite(w) ==
    { s \in DOMAIN w :
        /\ w[s].status = COMPLETED
        /\ \E p \in DOMAIN w : IsBlockingPrereqOf(p, s) /\ w[p].status # COMPLETED }

\* C25: complete_step does not look at prerequisites.  On a step checked by
\* the generic validator it succeeds whatever the status of the step's
\* prerequisites, also on a project where nothing else has been done: the
\* step becomes completed at 100% and no other row changes.
C25_CompleteIgnoresPrerequisites ==
    [][ ( request'.op = "complete_step" /\ request'.step \in GenericSteps )
        => /\ response'.code = 200
           /\ wf'[request'.step].status = COMPLETED
           /\ wf'[request'.step].completion_percentage = 100
           /\ \A s \in DOMAIN wf : s # request'.step => wf'[s] = wf[s]
      ]_vars

\* Scenario selection stays completed after intervention tailoring, two
\* steps upstream, was reopened (which put impact forecasting back in
\* progress), and service delivery has just been completed although
\* resource optimization and the four first steps were never started.
C25_Witness ==
    /\ request.op = "complete_step"
    /\ request.step = "service_delivery"
    /\ response.code = 200
    /\ wf["resource_optimization"].status = NOT_STARTED
    /\ wf["stratification"].status = NOT_STARTED
    /\ wf["intervention_tailoring"].status = IN_PROGRESS
    /\ wf["impact_forecasting"].status = IN_PROGRESS
    /\ { "scenario_selection", "service_delivery" } \subseteq AheadOfPrerequisite(wf)

(***************************************************************************)
(* SpecWalk: a project is given what the validators of its first four      *)
(* steps ask for and these steps are completed, one request after the      *)
(* other; then the six remaining steps are completed in any order, one of  *)
(* them is reopened, and the workflow is read at any time.                 *)
(***************************************************************************)
FirstSteps ==
    << "planning_preparedness", "data_assembly", "situation_analysis",
       "stratification" >>

\* The first n of the first four steps are completed.
FirstDone(n) == \A i \in 1..n : wf[FirstSteps[i]].status = COMPLETED

WalkSteps == WorkflowStep \ { FirstSteps[i] : i \in DOMAIN FirstSteps }

WalkReopens == { "scenario_selection" }

NextWalk ==
    \/ CreateProject /\ Idle
    \/ /\ ProjectExists
       /\ wf["planning_preparedness"].data = NoData
       /\ UpdateStep("planning_preparedness",
             StepUpdateRequest(None, -1, { "scope_of_work", "operational_unit" }))
       /\ Idle
    \/ /\ ProjectExists
       /\ wf["planning_preparedness"].data # NoData
       /\ UploadDataSource("ds", IF dataSources = << >> THEN "epidemiological"
                                                         ELSE "demographic")
       /\ Idle
    \/ /\ ProjectExists
       /\ Len(dataSources) >= 2
       /\ wf["situation_analysis"].data = NoData
       /\ UpdateStep("situation_analysis",
             StepUpdateRequest(None, -1, { "analysis_completed" }))
       /\ Idle
    \/ /\ ProjectExists
       /\ wf["situation_analysis"].data # NoData
       /\ CreateConfig("cfg", DefaultThresholds)
       /\ Idle
    \/ /\ results = << >>
       /\ CalculateStratification(1,
             << [ admin_unit_name |-> "A", metric_value |-> 5 ] >>)
       /\ Idle
    \/ GetWorkflow /\ Idle
    \/ \E i \in DOMAIN FirstSteps :
          /\ results # << >>
          /\ FirstDone(i - 1)
          /\ wf[FirstSteps[i]].status # COMPLETED
          /\ CompleteStep(FirstSteps[i], "u1", "t1")
          /\ Idle
    \/ \E step \in WalkSteps :
          /\ ProjectExists
          /\ FirstDone(Len(FirstSteps))
          /\ CompleteStep(step, "u1", "t1")
          /\ Idle
    \/ \E step \in WalkReopens :
          /\ ProjectExists
          /\ FirstDone(Len(FirstSteps))
          /\ ReopenStep(step)
          /\ Idle

SpecWalk == Init /\ [][NextWalk]_vars

\* The positions in WORKFLOW_STEP_ORDER of the steps that are not completed
OpenPositions(w) ==
    { i \in DOMAIN WORKFLOW_STEP_ORDER : w[WORKFLOW_STEP_ORDER[i]].status # COMPLETED }

\* C26: with the ten rows in place, the current_step that GET workflow
\* reports is the first step of the fixed order that is not completed; it
\* is none exactly when all ten are completed, which is exactly when
\* overall_progress is 100.  That first step is always accessible, so the
\* accessibility test never makes the scan pass it over.
C26_CurrentIsFirstOpen ==
    ( request.op = "get_workflow" /\ response.code = 200 ) =>
      LET open == OpenPositions(wf)
          state == response.state
      IN  /\ DOMAIN wf = WorkflowStep
          /\ Len(state.steps) = Len(WORKFLOW_STEP_ORDER)
          /\ ( state.current_step = None ) <=> ( open = {} )
          /\ ( state.overall_progress = 100 ) <=> ( open = {} )
          /\ open # {} =>
               LET first == CHOOSE i \in open : \A j \in open : i <= j
               IN  /\ state.current_step = WORKFLOW_STEP_ORDER[first]
                   /\ state.steps[first].step = WORKFLOW_STEP_ORDER[first]
                   /\ state.steps[first].is_accessible
                   /\ state.steps[first].blocking_prerequisites = << >>

\* Scenario selection was reopened, which put resource optimization back in
\* progress; with service delivery and monitoring completed further down,
\* the workflow reports 80% and scenario selection as the current step.
C26_Witness ==
    /\ request.op = "get_workflow"
    /\ response.state.current_step = "scenario_selection"
    /\ response.state.overall_progress = 80
    /\ wf["scenario_selection"].status = IN_PROGRESS
    /\ wf["resource_optimization"].status = IN_PROGRESS
    /\ wf["monitoring_evaluation"].status = COMPLETED
    /\ ~ response.state.steps[9].is_accessible

(***************************************************************************)
(* SpecStamp: three consecutive steps under all five workflow requests,    *)
(* with two callers and two call times.                                    *)
(***************************************************************************)
StampSteps ==
    { "intervention_tailoring", "impact_forecasting", "scenario_selection" }

StampPatches ==
    { StepUpdateRequest(None, -1, NoData), StepUpdateRequest("note", 50, NoData) }

NextStamp ==
    \/ CreateProject /\ Idle
    \/ \E patch \in StampPatches : UpdateStep("impact_forecasting", patch) /\ Idle
    \/ ValidateStep("impact_forecasting") /\ Idle
    \/ \E step \in StampSteps, in \in { << "u1", "t1" >>, << "u2", "t2" >> } :
          CompleteStep(step, in[1], in[2]) /\ Idle
    \/ \E step \in StampSteps : ReopenStep(step) /\ Idle

SpecStamp == Init /\ [][NextStamp]_vars

\* C27: a step's status is completed exactly when its completed_at and its
\* completed_by are both set; the two are set together and cleared
\* together, so neither is ever set without the other.
C27_CompletedIffStamped ==
    \A s \in DOMAIN wf :
       /\ ( wf[s].status = COMPLETED )
             <=> ( wf[s].completed_at # None /\ wf[s].completed_by # None )
       /\ ( wf[s].completed_at = None ) <=> ( wf[s].completed_by = None )

\* Intervention tailoring was reopened: it and impact forecasting, its
\* completed dependent, lost status and both stamps together (their 100%
\* remains), while scenario selection, two steps down, keeps all three.
C27_Witness ==
    /\ request.op = "reopen_step"
    /\ request.step = "intervention_tailoring"
    /\ \A s \in { "intervention_tailoring", "impact_forecasting" } :
          /\ wf[s].status = IN_PROGRESS
          /\ wf[s].completion_percentage = 100
          /\ wf[s].completed_at = None
          /\ wf[s].completed_by = None
    /\ wf["impact_forecasting"].notes = "note"
    /\ wf["impact_forecasting"].validation_errors.stored
    /\ wf["scenario_selection"].status = COMPLETED
    /\ wf["scenario_selection"].completed_at = "t2"
    /\ wf["scenario_selection"].completed_by = "u2"

\* C28: no workflow request takes a step that has left not_started back to
\* not_started; and reopen_step asks nothing of its target: it answers 200
\* and leaves the target in progress whatever its status was, not_started
\* included.
C28_NeverBackToNotStarted ==
    [][ /\ \A s \in DOMAIN wf :
              wf[s].status # NOT_STARTED => wf'[s].status # NOT_STARTED
        /\ request'.op = "reopen_step" =>
              /\ response'.code = 200
              /\ wf'[request'.step].status = IN_PROGRESS
      ]_vars

\* Scenario selection was never updated, validated or completed (0%, no
\* snapshot) and reopen_step has put it in progress.
C28_Witness ==
    /\ request.op = "reopen_step"
    /\ request.step = "scenario_selection"
    /\ wf["scenario_selection"].status = IN_PROGRESS
    /\ wf["scenario_selection"].completion_percentage = 0
    /\ ~ wf["scenario_selection"].validation_errors.stored
    /\ wf["impact_forecasting"].status = NOT_STARTED
    /\ wf["intervention_tailoring"].status = COMPLETED

\* C29: a complete_step that fails validation (HTTP 400) changes the status,
\* the completion percentage, completed_at and completed_by of no step; the
\* only field of the workflow rows it may have written is the validation
\* snapshot of its target.
C29_FailedCompleteKeepsRows ==
    [][ ( request'.op = "complete_step" /\ response'.code # 200 )
        => /\ response'.code = 400
           /\ \A s \in DOMAIN wf :
                 /\ wf'[s].status = wf[s].status
                 /\ wf'[s].completion_percentage = wf[s].completion_percentage
                 /\ wf'[s].completed_at = wf[s].completed_at
                 /\ wf'[s].completed_by = wf[s].completed_by
                 /\ s # request'.step => wf'[s] = wf[s]
           /\ wf'[request'.step] =
                 [ wf[request'.step] EXCEPT
                     !.validation_errors = wf'[request'.step].validation_errors ]
      ]_vars

\* complete_step on stratification was refused for want of an active
\* configuration; planning, completed before, and the untouched target are
\* as they were.
C29_Witness ==
    /\ request.op = "complete_step"
    /\ request.step = "stratification"
    /\ response.code = 400
    /\ Len(response.errors) = 1
    /\ configs = << >>
    /\ wf["stratification"].status = NOT_STARTED
    /\ wf["stratification"].completion_percentage = 0
    /\ wf["stratification"].completed_by = None
    /\ wf["planning_preparedness"].status = COMPLETED
    /\ wf["planning_preparedness"].completed_by = "u1"

(***************************************************************************)
(* SpecStale: one scenario, new or already costed, is optimized under a    *)
(* budget and given a new assignment, in any order.                        *)
(***************************************************************************)
StalePlans ==
    { << << "D1", << "cm", "lsm" >> >> >>, << << "D1", << "cm" >> >> >>,
      << << "D1", << "zzz" >> >> >>, << << "D2", << "lsm" >> >> >>,
      << << "D1", << "lsm" >> >>, << "D2", << "cm" >> >> >> }

StalePopulations == { << Pop("D1", 1000) >>, << Pop("D1", 2000), Pop("D2", 1000) >> }

StaleBudgets == { SFromInt(b) : b \in { -1, 500, 20000 } }

\* What calculate-cost leaves for the assignment {D1: [cm, lsm]} with 1000
\* people in D1 over 5 years: items of 645.0 and 375.0, total 1020.0.
StaleCosted ==
    [ scenario |->
        [ NewScenario(CostProject, << << "D1", << "cm", "lsm" >> >> >>, CostUser)
            EXCEPT !.total_cost = SFromInt(1020), !.population_covered = 1000 ],
      items |->
        << [ scenario_id |-> 1, admin_unit_code |-> "D1", intervention_code |-> "cm",
             total_cost |-> SFromInt(645), years |-> 5 ],
           [ scenario_id |-> 1, admin_unit_code |-> "D1", intervention_code |-> "lsm",
             total_cost |-> SFromInt(375), years |-> 5 ] >> ]

StaleNew ==
    [ scenario |-> NewScenario(CostProject, << << "D1", << "cm", "lsm" >> >> >>, CostUser),
      items |-> << >> ]

InitStale ==
    /\ wf = NoRows
    /\ dataSources = << >>
    /\ configs = << >>
    /\ results = << >>
    /\ request = Request("none", None, None, None)
    /\ response = Response(0, << >>, NoVerdict, NoState)
    /\ \E start \in { StaleNew, StaleCosted } :
          /\ scenarios = << start.scenario >>
          /\ costItems = start.items
    /\ forecasts = << >>
    /\ sessions = NoSessions
    /\ HarnessIdle

NextStale ==
    \/ \E budget_constraint \in StaleBudgets, population_data \in StalePopulations :
          /\ OptimizeScenario(CostProject, 1, CostUser, budget_constraint,
                              population_data)
          /\ ScenarioFrame
    \/ \E interventions \in StalePlans :
          /\ UpdateScenario(CostProject, 1, CostUser, interventions)
          /\ ScenarioFrame

SpecStale == InitStale /\ [][NextStale]_vars

\* The cost items of the scenario are one per (unit, code) pair of its
\* assignment and their costs add up to its stored total_cost.
CostedAsAssigned(rows, items, scenario_id) ==
    LET own == OfScenario(items, scenario_id)
        pairs == PairsOf(rows[scenario_id].interventions)
    IN  /\ Len(own) = Len(pairs)
        /\ { << own[i].admin_unit_code, own[i].intervention_code >> : i \in DOMAIN own }
              = { pairs[i] : i \in DOMAIN pairs }
        /\ rows[scenario_id].total_cost = SumFrom(own, 1, SZero)

\* C30: optimize and update of a scenario create, delete and change no cost
\* item and leave every scenario's population_covered as it was.  So the
\* items and population_covered that calculate-cost stored stay as they
\* are while the assignment and total_cost they were computed for change.
C30_ItemsOnlyByCalculate ==
    [][ request'.op \in { "optimize", "update_scenario" } =>
          /\ costItems' = costItems
          /\ Len(scenarios') = Len(scenarios)
          /\ \A k \in DOMAIN scenarios :
                scenarios'[k].population_covered = scenarios[k].population_covered
      ]_vars

\* The costed scenario (two items, 1000 people covered) was optimized under
\* a budget that keeps one of its two pairs: the two items and
\* population_covered remain, and no longer match the assignment and
\* total_cost.
C30_Witness ==
    /\ request.op = "optimize"
    /\ response.code = 200
    /\ costItems = StaleCosted.items
    /\ CostedAsAssigned(<< StaleCosted.scenario >>, costItems, 1)
    /\ scenarios[1].population_covered = 1000
    /\ Len(PairsOf(scenarios[1].interventions)) = 1
    /\ ~ CostedAsAssigned(scenarios, costItems, 1)

====
